---------------------------- MODULE Spec2Model ----------------------------
(***************************************************************************)
(* Extraction validation and data normalisation of the browser assistant:  *)
(*   web-app/src/lib/extraction-validator.ts  (validateExtraction,         *)
(*       levenshteinDistance, formatValidationMessage)                     *)
(*   src/unnamed/part_003                     (parseExtractedData and its  *)
(*       strategies)                                                       *)
(*                                                                         *)
(* A JavaScript string is a sequence of tokens.  Computed text (column     *)
(* names, numbers, joined lists) is one character per token; the literal   *)
(* text of a message template is kept as one token.  Characters outside    *)
(* ASCII are written by code point: "U+2713" is the check mark, "U+26A0"   *)
(* the warning sign.                                                       *)
(***************************************************************************)
EXTENDS Integers, Sequences, FiniteSets, TLC

VARIABLES pc, data, params, result, message, payload, nparts, parsed,
          file, before, calls,
          pendingCallbacks, messageIdCounter, isExecuting, timers,
          resolutions, event

vars == <<pc, data, params, result, message, payload, nparts, parsed,
          file, before, calls,
          pendingCallbacks, messageIdCounter, isExecuting, timers,
          resolutions, event>>

\* what a validation works on, and what a parse works on
validation == <<data, params, result, message>>

parsing == <<payload, nparts, parsed>>

\* the manifest file, what it held at first, and the calls that add to it
manifestState == <<file, before, calls>>

\* the refs and the state of the useExtension hook, the timers it has set,
\* the calls of resolve so far, and the message or timer last handled
extensionState == <<pendingCallbacks, messageIdCounter, isExecuting, timers,
                    resolutions, event>>

---------------------------------------------------------------------------
(* JavaScript values *)

Null == [t |-> "null"]

Undefined == [t |-> "undefined"]

Str(s) == [t |-> "string", s |-> s]

Num(n) == [t |-> "number", n |-> n]

Bool(b) == [t |-> "boolean", b |-> b]

Arr(a) == [t |-> "array", a |-> a]

\* An object is its own enumerable keys in insertion order, each with a value.
Obj(f) == [t |-> "object", f |-> f]

Field(k, v) == [k |-> k, v |-> v]

IsNullish(v) == v.t \in {"null", "undefined"}

\* ToBoolean, as applied by !x and by x && y (NaN is not among the numbers here).
Truthy(v) ==
  CASE v.t = "null" -> FALSE
    [] v.t = "undefined" -> FALSE
    [] v.t = "number" -> v.n # 0
    [] v.t = "string" -> Len(v.s) > 0
    [] v.t = "boolean" -> v.b
    [] OTHER -> TRUE

\* Object.keys(o) of an object; on null or undefined it throws a TypeError,
\* which the callers below test for before they use it.
ObjectKeys(o) == [i \in 1..Len(o.f) |-> o.f[i].k]

HasKey(o, key) == \E i \in 1..Len(o.f) : o.f[i].k = key

\* o[key]: the value of the own property, undefined when there is none.
Get(o, key) ==
  IF HasKey(o, key)
  THEN o.f[CHOOSE i \in 1..Len(o.f) : o.f[i].k = key].v
  ELSE Undefined

---------------------------------------------------------------------------
(* Strings *)

Upper == <<"A","B","C","D","E","F","G","H","I","J","K","L","M",
           "N","O","P","Q","R","S","T","U","V","W","X","Y","Z">>

LowerOf == <<"a","b","c","d","e","f","g","h","i","j","k","l","m",
             "n","o","p","q","r","s","t","u","v","w","x","y","z">>

\* One character of String.prototype.toLowerCase.
LowerChar(c) ==
  IF \E i \in 1..26 : Upper[i] = c
  THEN LowerOf[CHOOSE i \in 1..26 : Upper[i] = c]
  ELSE c

ToLowerCase(s) == [i \in 1..Len(s) |-> LowerChar(s[i])]

\* The characters String.prototype.trim removes and \s matches.
WhiteSpace == {" ", "\t", "\n", "\r"}

\* The positions of s that hold something other than white space.
Inked(s) == SelectSeq([i \in 1..Len(s) |-> i], LAMBDA i : s[i] \notin WhiteSpace)

TrimStart(s) ==
  IF Inked(s) = <<>> THEN <<>> ELSE SubSeq(s, Inked(s)[1], Len(s))

TrimEnd(s) ==
  IF Inked(s) = <<>> THEN <<>> ELSE SubSeq(s, 1, Inked(s)[Len(Inked(s))])

Trim(s) == TrimEnd(TrimStart(s))

\* s.startsWith(lit, at i) where i is a 1-based position.
StartsWithAt(s, i, lit) ==
  /\ i + Len(lit) - 1 <= Len(s)
  /\ \A j \in 1..Len(lit) : s[i + j - 1] = lit[j]

\* s.includes(sub)
Includes(s, sub) == \E i \in 1..(Len(s) + 1) : StartsWithAt(s, i, sub)

Digits == <<"0","1","2","3","4","5","6","7","8","9">>

\* String(n) of a non-negative integer.
RECURSIVE NatStr(_)
NatStr(n) ==
  IF n < 10 THEN <<Digits[n + 1]>>
  ELSE NatStr(n \div 10) \o <<Digits[(n % 10) + 1]>>

NumStr(n) == IF n < 0 THEN <<"-">> \o NatStr(0 - n) ELSE NatStr(n)

\* Array.prototype.join over an array of strings.
RECURSIVE Join(_, _)
Join(strs, sep) ==
  IF strs = <<>> THEN <<>>
  ELSE IF Len(strs) = 1 THEN strs[1]
  ELSE strs[1] \o sep \o Join(Tail(strs), sep)

CommaSpace == <<",", " ">>

\* The indices of an array of length n, as forEach and filter visit them.
Indices(n) == [i \in 1..n |-> i]

Min2(a, b) == IF a <= b THEN a ELSE b

---------------------------------------------------------------------------
(* extraction-validator.ts *)

Issue(type, msg, severity, details) ==
  [type |-> type, message |-> msg, severity |-> severity, details |-> details]

\* A call that ended in an uncaught exception instead of a return value.
Threw(error) == [threw |-> TRUE, error |-> error]

ValidationResult(isValid, validRows, totalRows, issues) ==
  [threw |-> FALSE, isValid |-> isValid, validRows |-> validRows,
   totalRows |-> totalRows, issues |-> issues]

\* The next row of the matrix from the previous one (the inner loop over j).
RECURSIVE LevRow(_, _, _, _, _)
LevRow(a, b, i, prev, row) ==
  LET j == Len(row) IN
  IF j > Len(a) THEN row
  ELSE LevRow(a, b, i, prev,
         Append(row,
           IF b[i] = a[j]
           THEN prev[j]
           ELSE Min2(prev[j] + 1, Min2(row[j] + 1, prev[j + 1] + 1))))

\* Rows 1..|b| of the matrix (the outer loop over i); returns the last row.
RECURSIVE LevRows(_, _, _, _)
LevRows(a, b, i, prev) ==
  IF i > Len(b) THEN prev
  ELSE LevRows(a, b, i + 1, LevRow(a, b, i, prev, <<i>>))

levenshteinDistance(a, b) ==
  IF Len(a) = 0 THEN Len(b)
  ELSE IF Len(b) = 0 THEN Len(a)
  ELSE LevRows(a, b, 1, [j \in 1..(Len(a) + 1) |-> j - 1])[Len(a) + 1]

FuzzyDistance == 2

ColumnMatchesWithinOne(actual, normalizedExpected) ==
  \/ Includes(actual, normalizedExpected)
  \/ Includes(normalizedExpected, actual)
  \/ levenshteinDistance(actual, normalizedExpected) <= 1

\* The predicate of normalizedActual.some(...) for one actual column.
ColumnMatches(actual, normalizedExpected) ==
  \/ Includes(actual, normalizedExpected)
  \/ Includes(normalizedExpected, actual)
  \/ levenshteinDistance(actual, normalizedExpected) <= FuzzyDistance

EmptyDataWarningResult(expectedMinRows) ==
  ValidationResult(FALSE, 0, 0,
    <<Issue("insufficient_rows", <<"No data was extracted">>, "warning",
            [expected |-> IF IsNullish(expectedMinRows) THEN 1
                          ELSE expectedMinRows.n,
             actual |-> 0])>>)

EmptyDataOrOneResult(expectedMinRows) ==
  ValidationResult(FALSE, 0, 0,
    <<Issue("insufficient_rows", <<"No data was extracted">>, "error",
            [expected |-> IF Truthy(expectedMinRows) THEN expectedMinRows.n
                          ELSE 1,
             actual |-> 0])>>)

\* Handle empty data (the early return).
EmptyDataResult(expectedMinRows) ==
  ValidationResult(FALSE, 0, 0,
    <<Issue("insufficient_rows", <<"No data was extracted">>, "error",
            [expected |-> IF IsNullish(expectedMinRows) THEN 1
                          ELSE expectedMinRows.n,
             actual |-> 0])>>)

CheckRowCountAtMost(rows, expectedMinRows) ==
  IF Truthy(expectedMinRows) /\ Len(rows) <= expectedMinRows.n
  THEN <<Issue("insufficient_rows",
               <<"Expected at least ">> \o NumStr(expectedMinRows.n)
                 \o <<" rows, got ">> \o NumStr(Len(rows)),
               "warning",
               [expected |-> expectedMinRows.n, actual |-> Len(rows)])>>
  ELSE <<>>

\* 1. Check row count
CheckRowCount(rows, expectedMinRows) ==
  IF Truthy(expectedMinRows) /\ Len(rows) < expectedMinRows.n
  THEN <<Issue("insufficient_rows",
               <<"Expected at least ">> \o NumStr(expectedMinRows.n)
                 \o <<" rows, got ">> \o NumStr(Len(rows)),
               "warning",
               [expected |-> expectedMinRows.n, actual |-> Len(rows)])>>
  ELSE <<>>

\* 2. Check expected columns
CheckExpectedColumns(rows, expectedColumns) ==
  IF Truthy(expectedColumns) /\ Len(expectedColumns.a) > 0
  THEN LET actualColumns == IF Len(rows) > 0 THEN ObjectKeys(rows[1]) ELSE <<>>
           normalizedActual ==
             [i \in 1..Len(actualColumns) |-> ToLowerCase(actualColumns[i])]
           IsMissing(expected) ==
             ~ \E i \in 1..Len(normalizedActual) :
                 ColumnMatches(normalizedActual[i], ToLowerCase(expected))
           missingColumns == SelectSeq(expectedColumns.a, IsMissing)
       IN IF Len(missingColumns) > 0
          THEN <<Issue("missing_column",
                       <<"Missing expected columns: ">>
                         \o Join(missingColumns, CommaSpace),
                       "error",
                       [expected |-> Join(missingColumns, CommaSpace),
                        actual |-> Join(actualColumns, CommaSpace)])>>
          ELSE <<>>
  ELSE <<>>

\* String(value): the values a row holds here are strings, numbers and booleans.
StringOfPrimitive(v) ==
  CASE v.t = "string" -> v.s
    [] v.t = "number" -> NumStr(v.n)
    [] v.t = "boolean" -> IF v.b THEN <<"t","r","u","e">>
                          ELSE <<"f","a","l","s","e">>

\* The filter of the emptiness scan: the empty fields of one row, in key order.
EmptyFields(row) ==
  LET IsEmptyKey(key) ==
        LET value == Get(row, key)
        IN value.t = "null" \/ value.t = "undefined"
             \/ Trim(StringOfPrimitive(value)) = <<>>
  IN SelectSeq(ObjectKeys(row), IsEmptyKey)

IsValidRow(row) == Len(EmptyFields(row)) = 0

IsCompletelyEmptyRowOrKeyless(row) ==
  Len(EmptyFields(row)) = Len(ObjectKeys(row))

IsCompletelyEmptyRow(row) ==
  /\ Len(EmptyFields(row)) # 0
  /\ Len(EmptyFields(row)) = Len(ObjectKeys(row))

IsPartiallyEmptyRow(row) ==
  /\ Len(EmptyFields(row)) # 0
  /\ Len(EmptyFields(row)) # Len(ObjectKeys(row))

ReportEmptyRowsZeroBased(rows) ==
  LET emptyRowIndices ==
        SelectSeq(Indices(Len(rows)), LAMBDA i : IsCompletelyEmptyRow(rows[i]))
      shown == [i \in 1..Len(emptyRowIndices) |-> NumStr(emptyRowIndices[i] - 1)]
  IN IF Len(emptyRowIndices) > 0
     THEN <<Issue("empty_field",
                  IF Len(emptyRowIndices) = 1
                  THEN <<"Row ">> \o shown[1] \o <<" is completely empty">>
                  ELSE <<"Rows ">> \o Join(shown, CommaSpace)
                         \o <<" are completely empty">>,
                  "error",
                  [rowIndex |-> emptyRowIndices[1] - 1])>>
     ELSE <<>>

ReportEmptyRowsAsWarning(rows) ==
  LET emptyRowIndices ==
        SelectSeq(Indices(Len(rows)), LAMBDA i : IsCompletelyEmptyRow(rows[i]))
      shown == [i \in 1..Len(emptyRowIndices) |-> NumStr(emptyRowIndices[i])]
  IN IF Len(emptyRowIndices) > 0
     THEN <<Issue("empty_field",
                  IF Len(emptyRowIndices) = 1
                  THEN <<"Row ">> \o shown[1] \o <<" is completely empty">>
                  ELSE <<"Rows ">> \o Join(shown, CommaSpace)
                         \o <<" are completely empty">>,
                  "warning",
                  [rowIndex |-> emptyRowIndices[1]])>>
     ELSE <<>>

\* Report completely empty rows (emptyRowIndices holds index + 1).
ReportEmptyRows(rows) ==
  LET emptyRowIndices ==
        SelectSeq(Indices(Len(rows)), LAMBDA i : IsCompletelyEmptyRow(rows[i]))
      shown == [i \in 1..Len(emptyRowIndices) |-> NumStr(emptyRowIndices[i])]
  IN IF Len(emptyRowIndices) > 0
     THEN <<Issue("empty_field",
                  IF Len(emptyRowIndices) = 1
                  THEN <<"Row ">> \o shown[1] \o <<" is completely empty">>
                  ELSE <<"Rows ">> \o Join(shown, CommaSpace)
                         \o <<" are completely empty">>,
                  "error",
                  [rowIndex |-> emptyRowIndices[1]])>>
     ELSE <<>>

ItemizedLimit == 3

ReportPartiallyEmptyRowsBelowLimit(rows) ==
  LET partiallyEmptyRows ==
        SelectSeq(Indices(Len(rows)), LAMBDA i : IsPartiallyEmptyRow(rows[i]))
      n == Len(partiallyEmptyRows)
  IN IF n > 0 /\ n < ItemizedLimit
     THEN [p \in 1..n |->
             LET index == partiallyEmptyRows[p]
                 fields == EmptyFields(rows[index])
             IN Issue("empty_field",
                      <<"Row ">> \o NumStr(index) \o <<" has empty fields: ">>
                        \o Join(fields, CommaSpace),
                      "warning",
                      [rowIndex |-> index, fields |-> fields])]
     ELSE IF n >= ItemizedLimit
     THEN <<Issue("empty_field",
                  NumStr(n) \o <<" rows have some empty fields">>,
                  "warning", Undefined)>>
     ELSE <<>>

\* Report partially empty rows (only if significant)
ReportPartiallyEmptyRows(rows) ==
  LET partiallyEmptyRows ==
        SelectSeq(Indices(Len(rows)), LAMBDA i : IsPartiallyEmptyRow(rows[i]))
      n == Len(partiallyEmptyRows)
  IN IF n > 0 /\ n <= ItemizedLimit
     THEN [p \in 1..n |->
             LET index == partiallyEmptyRows[p]
                 fields == EmptyFields(rows[index])
             IN Issue("empty_field",
                      <<"Row ">> \o NumStr(index) \o <<" has empty fields: ">>
                        \o Join(fields, CommaSpace),
                      "warning",
                      [rowIndex |-> index, fields |-> fields])]
     ELSE IF n > ItemizedLimit
     THEN <<Issue("empty_field",
                  NumStr(n) \o <<" rows have some empty fields">>,
                  "warning", Undefined)>>
     ELSE <<>>

\* The test of one row against the first row's key set.
IsInconsistentRow(rows, i) ==
  LET firstRowKeys == {ObjectKeys(rows[1])[j] : j \in 1..Len(ObjectKeys(rows[1]))}
      rowKeys == ObjectKeys(rows[i])
  IN \/ Len(rowKeys) # Cardinality(firstRowKeys)
     \/ ~ \A j \in 1..Len(rowKeys) : rowKeys[j] \in firstRowKeys

CheckColumnConsistencyKeysOnly(rows) ==
  IF Len(rows) > 1
  THEN LET firstRowKeys ==
             {ObjectKeys(rows[1])[j] : j \in 1..Len(ObjectKeys(rows[1]))}
           inconsistentRows ==
             Len(SelectSeq(Indices(Len(rows)), LAMBDA i :
               ~ \A j \in 1..Len(ObjectKeys(rows[i])) :
                    ObjectKeys(rows[i])[j] \in firstRowKeys))
       IN IF inconsistentRows > 0
          THEN <<Issue("inconsistent_columns",
                       NumStr(inconsistentRows)
                         \o <<" rows have different columns than expected">>,
                       "warning", Undefined)>>
          ELSE <<>>
  ELSE <<>>

\* 4. Check column consistency
CheckColumnConsistency(rows) ==
  IF Len(rows) > 1
  THEN LET inconsistentRows ==
             Len(SelectSeq(Indices(Len(rows)),
                           LAMBDA i : IsInconsistentRow(rows, i)))
       IN IF inconsistentRows > 0
          THEN <<Issue("inconsistent_columns",
                       NumStr(inconsistentRows)
                         \o <<" rows have different columns than expected">>,
                       "warning", Undefined)>>
          ELSE <<>>
  ELSE <<>>

HasErrors(issues) == \E i \in 1..Len(issues) : issues[i].severity = "error"

validateExtraction(p) ==
  IF ~Truthy(p.data) \/ Len(p.data.a) = 0
  THEN EmptyDataResult(p.expectedMinRows)
  ELSE LET rows == p.data.a IN
       \* Object.keys(row) throws on a null or undefined row: at the latest
       \* in the emptiness scan, which visits every row
       IF \E i \in 1..Len(rows) : IsNullish(rows[i])
       THEN Threw("TypeError")
       ELSE LET issues ==
                  CheckRowCount(rows, p.expectedMinRows)
                    \o CheckExpectedColumns(rows, p.expectedColumns)
                    \o ReportEmptyRows(rows)
                    \o ReportPartiallyEmptyRows(rows)
                    \o CheckColumnConsistency(rows)
                validRows ==
                  Len(SelectSeq(Indices(Len(rows)), LAMBDA i : IsValidRow(rows[i])))
            IN ValidationResult(~HasErrors(issues), validRows, Len(rows), issues)

CountSeverity(issues, severity) ==
  Len(SelectSeq(Indices(Len(issues)), LAMBDA i : issues[i].severity = severity))

PluralFromOne(n) == IF n >= 1 THEN <<"s">> ELSE <<>>

\* The suffix of `error${n > 1 ? 's' : ''}`.
Plural(n) == IF n > 1 THEN <<"s">> ELSE <<>>

formatValidationMessage(r) ==
  IF r.isValid /\ Len(r.issues) = 0
  THEN <<"U+2713 Extracted ">> \o NumStr(r.totalRows) \o <<" rows successfully">>
  ELSE LET errorCount == CountSeverity(r.issues, "error")
           warningCount == CountSeverity(r.issues, "warning")
           m0 == IF r.isValid
                 THEN <<"U+2713 Extracted ">> \o NumStr(r.totalRows) \o <<" rows">>
                 ELSE <<"U+26A0 Extracted ">> \o NumStr(r.totalRows) \o <<" rows">>
           m1 == IF errorCount > 0
                 THEN m0 \o <<" with ">> \o NumStr(errorCount) \o <<" error">>
                         \o Plural(errorCount)
                 ELSE m0
       IN IF warningCount > 0
          THEN IF errorCount > 0
               THEN m1 \o <<" and ">> \o NumStr(warningCount) \o <<" warning">>
                       \o Plural(warningCount)
               ELSE m1 \o <<" with ">> \o NumStr(warningCount) \o <<" warning">>
                       \o Plural(warningCount)
          ELSE m1

---------------------------------------------------------------------------
(* Regular expressions, as RegExp.prototype.exec matches them: backtracking *)
(* in priority order.  Every quantifier of the patterns below applies to a  *)
(* character class, and every pattern has at most one capture group.        *)

Lit(s) == [k |-> "lit", s |-> s]

\* [...] and [^...]
In(set) == [k |-> "cls", neg |-> FALSE, set |-> set]

NotIn(set) == [k |-> "cls", neg |-> TRUE, set |-> set]

\* c* c+ c{n,} (greedy) and c*? (lazy) of a character class c
Rep(c, min, greedy) == [k |-> "rep", c |-> c, min |-> min, greedy |-> greedy]

Star(c) == Rep(c, 0, TRUE)

Plus(c) == Rep(c, 1, TRUE)

LazyStar(c) == Rep(c, 0, FALSE)

Cat(rs) == [k |-> "cat", rs |-> rs]

Alt(rs) == [k |-> "alt", rs |-> rs]

Cap(r) == [k |-> "cap", r |-> r]

\* [\s\S]
AnyChar == NotIn({})

DigitChars == {"0","1","2","3","4","5","6","7","8","9"}

\* \w
WordChars ==
  {Upper[i] : i \in 1..26} \cup {LowerOf[i] : i \in 1..26}
    \cup DigitChars \cup {"_"}

InClass(ch, c) == IF c.neg THEN ch \notin c.set ELSE ch \in c.set

\* The literal at position pos; flag i compares letters without case.
LitAt(s, pos, lit, ci) ==
  /\ pos + Len(lit) - 1 <= Len(s)
  /\ \A j \in 1..Len(lit) :
       IF ci THEN LowerChar(s[pos + j - 1]) = LowerChar(lit[j])
       ELSE s[pos + j - 1] = lit[j]

\* The number of consecutive characters of class c from position pos.
Run(s, pos, c) ==
  LET stops == SelectSeq([i \in 1..(Len(s) + 1 - pos) |-> pos + i - 1],
                         LAMBDA p : ~InClass(s[p], c))
  IN IF stops = <<>> THEN Len(s) + 1 - pos ELSE stops[1] - pos

RECURSIVE Match(_, _, _, _)
RECURSIVE MatchCat(_, _, _, _, _)
RECURSIVE MatchEach(_, _, _, _, _, _)
RECURSIVE MatchAlt(_, _, _, _, _)

\* The ways pattern re matches s from state st = [pos, cap], in the order
\* backtracking tries them; each is the state after the match.
Match(re, s, st, ci) ==
  CASE re.k = "lit" ->
         IF LitAt(s, st.pos, re.s, ci)
         THEN <<[pos |-> st.pos + Len(re.s), cap |-> st.cap]>>
         ELSE <<>>
    [] re.k = "cls" ->
         IF st.pos <= Len(s) /\ InClass(s[st.pos], re)
         THEN <<[pos |-> st.pos + 1, cap |-> st.cap]>>
         ELSE <<>>
    [] re.k = "rep" ->
         LET m == Run(s, st.pos, re.c) IN
         IF m < re.min THEN <<>>
         ELSE [i \in 1..(m - re.min + 1) |->
                 [pos |-> st.pos + (IF re.greedy THEN m - i + 1
                                    ELSE re.min + i - 1),
                  cap |-> st.cap]]
    [] re.k = "cat" -> MatchCat(re.rs, 1, s, <<st>>, ci)
    [] re.k = "alt" -> MatchAlt(re.rs, 1, s, st, ci)
    [] re.k = "cap" ->
         LET ends == Match(re.r, s, st, ci)
         IN [i \in 1..Len(ends) |->
               [pos |-> ends[i].pos,
                cap |-> Str(SubSeq(s, st.pos, ends[i].pos - 1))]]

\* rs[i], rs[i+1], ... in sequence, from each of the states sts in order.
MatchCat(rs, i, s, sts, ci) ==
  IF i > Len(rs) \/ sts = <<>> THEN sts
  ELSE MatchCat(rs, i + 1, s, MatchEach(rs[i], s, sts, 1, Len(sts), ci), ci)

\* The matches of re from the states sts[lo..hi], in order.
MatchEach(re, s, sts, lo, hi, ci) ==
  IF lo > hi THEN <<>>
  ELSE IF lo = hi THEN Match(re, s, sts[lo], ci)
  ELSE LET mid == (lo + hi) \div 2
       IN MatchEach(re, s, sts, lo, mid, ci)
            \o MatchEach(re, s, sts, mid + 1, hi, ci)

MatchAlt(rs, i, s, st, ci) ==
  IF i > Len(rs) THEN <<>>
  ELSE Match(rs[i], s, st, ci) \o MatchAlt(rs, i + 1, s, st, ci)

NoMatch == [found |-> FALSE]

\* exec from lastIndex `from` (1-based): the leftmost match, and at that
\* position the first one in priority order.
RECURSIVE ExecBetween(_, _, _, _, _)
ExecBetween(re, s, lo, hi, ci) ==
  IF lo > hi THEN NoMatch
  ELSE IF lo = hi
  THEN LET First(ends) ==
             IF ends # <<>>
             THEN [found |-> TRUE, index |-> lo, end |-> ends[1].pos,
                   cap |-> ends[1].cap]
             ELSE NoMatch
       IN First(Match(re, s, [pos |-> lo, cap |-> Undefined], ci))
  ELSE LET mid == (lo + hi) \div 2
           left == ExecBetween(re, s, lo, mid, ci)
       IN IF left.found THEN left ELSE ExecBetween(re, s, mid + 1, hi, ci)

Exec(re, s, from, ci) == ExecBetween(re, s, from, Len(s) + 1, ci)

\* The captures of the successive matches of a /g pattern (the exec loop).
\* None of the patterns below matches the empty string.
RECURSIVE ExecAll(_, _, _, _)
ExecAll(re, s, from, ci) ==
  LET Next(m) ==
        IF m.found THEN <<m.cap.s>> \o ExecAll(re, s, m.end, ci) ELSE <<>>
  IN Next(Exec(re, s, from, ci))

\* s.replace(/re/g, by)
RECURSIVE ReplaceAll(_, _, _, _)
ReplaceAll(re, s, from, by) ==
  LET Next(m) ==
        IF m.found
        THEN SubSeq(s, from, m.index - 1) \o by \o ReplaceAll(re, s, m.end, by)
        ELSE SubSeq(s, from, Len(s))
  IN Next(Exec(re, s, from, FALSE))

---------------------------------------------------------------------------
(* JSON.parse, JSON.stringify and String, as part_003 applies them *)

JsonFail == [st |-> "fail"]

\* Text whose parse this model does not decide: escapes in strings, numbers
\* with a fraction or an exponent, keys that are array indices.
JsonUnmodelled == [st |-> "unmodelled"]

JsonOk(v, pos) == [st |-> "ok", v |-> v, pos |-> pos]

SkipWs(s, i) == i + Run(s, i, In(WhiteSpace))

RECURSIVE NatVal(_)
NatVal(ds) ==
  IF ds = <<>> THEN 0
  ELSE 10 * NatVal(SubSeq(ds, 1, Len(ds) - 1))
         + (CHOOSE d \in 0..9 : Digits[d + 1] = ds[Len(ds)])

\* A string, from the character after its opening quote.
JsonString(s, i) ==
  LET n == Run(s, i, NotIn({"\"", "\\", "\n", "\t", "\r"}))
      j == i + n
  IN IF j > Len(s) THEN JsonFail
     ELSE IF s[j] = "\"" THEN JsonOk(Str(SubSeq(s, i, j - 1)), j + 1)
     ELSE IF s[j] = "\\" THEN JsonUnmodelled
     ELSE JsonFail

JsonNumber(s, i) ==
  LET neg == s[i] = "-"
      d == IF neg THEN i + 1 ELSE i
      n == IF d <= Len(s) /\ s[d] = "0" THEN 1 ELSE Run(s, d, In(DigitChars))
      j == d + n
  IN IF n = 0 THEN JsonFail
     ELSE IF j <= Len(s) /\ s[j] \in {".", "e", "E"} THEN JsonUnmodelled
     ELSE JsonOk(Num((IF neg THEN -1 ELSE 1) * NatVal(SubSeq(s, d, j - 1))), j)

JsonLiteral(s, i, word, v) ==
  IF StartsWithAt(s, i, word) THEN JsonOk(v, i + Len(word)) ELSE JsonFail

\* obj[key] = v on an object under construction: a repeated key keeps its
\* place and takes the later value.
SetField(fields, key, v) ==
  IF \E i \in 1..Len(fields) : fields[i].k = key
  THEN [i \in 1..Len(fields) |->
          IF fields[i].k = key THEN Field(key, v) ELSE fields[i]]
  ELSE Append(fields, Field(key, v))

IsIndexKey(key) ==
  /\ key # <<>>
  /\ \A i \in 1..Len(key) : key[i] \in DigitChars

RECURSIVE JsonValue(_, _)
RECURSIVE JsonElements(_, _, _)
RECURSIVE JsonMembers(_, _, _)

JsonValue(s, i0) ==
  LET i == SkipWs(s, i0) IN
  IF i > Len(s) THEN JsonFail
  ELSE CASE s[i] = "[" ->
              LET j == SkipWs(s, i + 1)
              IN IF j <= Len(s) /\ s[j] = "]" THEN JsonOk(Arr(<<>>), j + 1)
                 ELSE JsonElements(s, i + 1, <<>>)
         [] s[i] = "{" ->
              LET j == SkipWs(s, i + 1)
              IN IF j <= Len(s) /\ s[j] = "}" THEN JsonOk(Obj(<<>>), j + 1)
                 ELSE JsonMembers(s, i + 1, <<>>)
         [] s[i] = "\"" -> JsonString(s, i + 1)
         [] s[i] = "t" -> JsonLiteral(s, i, <<"t","r","u","e">>, Bool(TRUE))
         [] s[i] = "f" -> JsonLiteral(s, i, <<"f","a","l","s","e">>, Bool(FALSE))
         [] s[i] = "n" -> JsonLiteral(s, i, <<"n","u","l","l">>, Null)
         [] s[i] \in DigitChars \cup {"-"} -> JsonNumber(s, i)
         [] OTHER -> JsonFail

JsonElements(s, i, acc) ==
  LET After(r) ==
        IF r.st # "ok" THEN r
        ELSE LET j == SkipWs(s, r.pos) IN
             IF j > Len(s) THEN JsonFail
             ELSE IF s[j] = "," THEN JsonElements(s, j + 1, Append(acc, r.v))
             ELSE IF s[j] = "]" THEN JsonOk(Arr(Append(acc, r.v)), j + 1)
             ELSE JsonFail
  IN After(JsonValue(s, i))

JsonMembers(s, i0, acc) ==
  LET i == SkipWs(s, i0)
      AfterValue(key, r) ==
        IF r.st # "ok" THEN r
        ELSE LET j == SkipWs(s, r.pos) IN
             IF j > Len(s) THEN JsonFail
             ELSE IF s[j] = ","
             THEN JsonMembers(s, j + 1, SetField(acc, key.v.s, r.v))
             ELSE IF s[j] = "}"
             THEN JsonOk(Obj(SetField(acc, key.v.s, r.v)), j + 1)
             ELSE JsonFail
      AfterKey(key) ==
        IF key.st # "ok" THEN key
        ELSE IF IsIndexKey(key.v.s) THEN JsonUnmodelled
        ELSE LET c == SkipWs(s, key.pos) IN
             IF c > Len(s) \/ s[c] # ":" THEN JsonFail
             ELSE AfterValue(key, JsonValue(s, c + 1))
  IN IF i > Len(s) \/ s[i] # "\"" THEN JsonFail
     ELSE AfterKey(JsonString(s, i + 1))

\* JSON.parse(text): "ok" with the value, or "fail" for a SyntaxError.
JSONparse(text) ==
  LET Whole(r) ==
        IF r.st # "ok" THEN r
        ELSE IF SkipWs(text, r.pos) > Len(text) THEN r
        ELSE JsonFail
  IN Whole(JsonValue(text, 1))

\* The quoted form of a string in JSON.stringify.
RECURSIVE JsonEscape(_)
JsonEscape(s) ==
  IF s = <<>> THEN <<>>
  ELSE (CASE Head(s) = "\"" -> <<"\\", "\"">>
          [] Head(s) = "\\" -> <<"\\", "\\">>
          [] Head(s) = "\n" -> <<"\\", "n">>
          [] Head(s) = "\r" -> <<"\\", "r">>
          [] Head(s) = "\t" -> <<"\\", "t">>
          [] OTHER -> <<Head(s)>>) \o JsonEscape(Tail(s))

RECURSIVE JSONstringify(_)
RECURSIVE StringifyElements(_, _)
RECURSIVE StringifyMembers(_, _)

\* JSON.stringify(value) of a value that is not undefined.
JSONstringify(v) ==
  CASE v.t = "null" -> <<"n","u","l","l">>
    [] v.t = "number" -> NumStr(v.n)
    [] v.t = "boolean" -> StringOfPrimitive(v)
    [] v.t = "string" -> <<"\"">> \o JsonEscape(v.s) \o <<"\"">>
    [] v.t = "array" -> <<"[">> \o StringifyElements(v.a, 1) \o <<"]">>
    [] v.t = "object" ->
         <<"{">>
           \o StringifyMembers(SelectSeq(v.f, LAMBDA f : f.v.t # "undefined"), 1)
           \o <<"}">>

StringifyElements(a, i) ==
  IF i > Len(a) THEN <<>>
  ELSE (IF a[i].t = "undefined" THEN <<"n","u","l","l">> ELSE JSONstringify(a[i]))
         \o (IF i < Len(a) THEN <<",">> ELSE <<>>)
         \o StringifyElements(a, i + 1)

StringifyMembers(f, i) ==
  IF i > Len(f) THEN <<>>
  ELSE <<"\"">> \o JsonEscape(f[i].k) \o <<"\"", ":">> \o JSONstringify(f[i].v)
         \o (IF i < Len(f) THEN <<",">> ELSE <<>>)
         \o StringifyMembers(f, i + 1)

\* String(value)
RECURSIVE StringOf(_)
StringOf(v) ==
  CASE v.t = "null" -> <<"n","u","l","l">>
    [] v.t = "undefined" -> <<"u","n","d","e","f","i","n","e","d">>
    [] v.t = "object" ->
         <<"[","o","b","j","e","c","t"," ","O","b","j","e","c","t","]">>
    [] v.t = "array" ->
         Join([i \in 1..Len(v.a) |->
                 IF IsNullish(v.a[i]) THEN <<>> ELSE StringOf(v.a[i])], <<",">>)
    [] OTHER -> StringOfPrimitive(v)

\* Object.keys(v) of a value that is not null or undefined.
KeysOf(v) ==
  CASE v.t = "object" -> ObjectKeys(v)
    [] v.t = "array" -> [i \in 1..Len(v.a) |-> NumStr(i - 1)]
    [] v.t = "string" -> [i \in 1..Len(v.s) |-> NumStr(i - 1)]
    [] OTHER -> <<>>

kLength == <<"l","e","n","g","t","h">>

\* v[key] for an own property (keys that name inherited members, such as
\* "constructor", are not among the inputs).
GetProp(v, key) ==
  CASE v.t = "object" -> Get(v, key)
    [] v.t = "array" ->
         IF key = kLength THEN Num(Len(v.a))
         ELSE IF IsIndexKey(key) /\ key = NumStr(NatVal(key))
                 /\ NatVal(key) < Len(v.a)
         THEN v.a[NatVal(key) + 1]
         ELSE Undefined
    [] v.t = "string" ->
         IF key = kLength THEN Num(Len(v.s))
         ELSE IF IsIndexKey(key) /\ key = NumStr(NatVal(key))
                 /\ NatVal(key) < Len(v.s)
         THEN Str(<<v.s[NatVal(key) + 1]>>)
         ELSE Undefined
    [] OTHER -> Undefined

---------------------------------------------------------------------------
(* part_003: the parsers of extracted content *)

Table(headers, rows) ==
  [threw |-> FALSE, type |-> "table", headers |-> headers, rows |-> rows]

Text(text) == [threw |-> FALSE, type |-> "text", text |-> text]

\* /<[^>]*>/g
reTag == Cat(<<Lit(<<"<">>), Star(NotIn({">"})), Lit(<<">">>)>>)

\* Strip HTML tags from a string, decode six entities, trim.
stripHtml(html) ==
  Trim(
    ReplaceAll(Lit(<<"&","#","3","9",";">>),
      ReplaceAll(Lit(<<"&","q","u","o","t",";">>),
        ReplaceAll(Lit(<<"&","g","t",";">>),
          ReplaceAll(Lit(<<"&","l","t",";">>),
            ReplaceAll(Lit(<<"&","a","m","p",";">>),
              ReplaceAll(Lit(<<"&","n","b","s","p",";">>),
                ReplaceAll(reTag, html, 1, <<>>),
                1, <<" ">>),
              1, <<"&">>),
            1, <<"<">>),
          1, <<">">>),
        1, <<"\"">>),
      1, <<"'">>))

\* <name[^>]*>([\s\S]*?)<\/name>  for the element name given, e.g. "<table".
reElement(open, close) ==
  Cat(<<Lit(open), Star(NotIn({">"})), Lit(<<">">>),
        Cap(LazyStar(AnyChar)), Lit(close)>>)

\* /<table[^>]*>([\s\S]*?)<\/table>/i
reTable ==
  reElement(<<"<","t","a","b","l","e">>, <<"<","/","t","a","b","l","e",">">>)

\* /<th[^>]*>([\s\S]*?)<\/th>/gi
reTh == reElement(<<"<","t","h">>, <<"<","/","t","h",">">>)

\* /<tr[^>]*>([\s\S]*?)<\/tr>/gi
reTr == reElement(<<"<","t","r">>, <<"<","/","t","r",">">>)

\* /<td[^>]*>([\s\S]*?)<\/td>/gi
reTd == reElement(<<"<","t","d">>, <<"<","/","t","d",">">>)

StripEach(cells) == [i \in 1..Len(cells) |-> Trim(stripHtml(cells[i]))]

parseHtmlTableKeepingFirstRow(html) ==
  LET \* the return statements, given the header cells and the rows
      Result(headers, rows) ==
        IF Len(headers) = 0 /\ Len(rows) > 0
        THEN Table(Head(rows), rows)
        ELSE IF Len(rows) = 0 THEN Text(html)
        ELSE Table(headers, rows)
      \* the loop over the rows: the cells of each, rows without cells left out
      Rows(rowContents) ==
        SelectSeq([i \in 1..Len(rowContents) |->
                     StripEach(ExecAll(reTd, rowContents[i], 1, TRUE))],
                  LAMBDA cells : Len(cells) > 0)
      Content(tableContent) ==
        Result(StripEach(ExecAll(reTh, tableContent, 1, TRUE)),
               Rows(ExecAll(reTr, tableContent, 1, TRUE)))
      Found(tableMatch) ==
        IF ~tableMatch.found THEN Text(html) ELSE Content(tableMatch.cap.s)
  IN Found(Exec(reTable, html, 1, TRUE))

\* Parse HTML table string into structured data
parseHtmlTable(html) ==
  LET \* the return statements, given the header cells and the rows
      Result(headers, rows) ==
        IF Len(headers) = 0 /\ Len(rows) > 0
        THEN Table(Head(rows), Tail(rows))
        ELSE IF Len(rows) = 0 THEN Text(html)
        ELSE Table(headers, rows)
      \* the loop over the rows: the cells of each, rows without cells left out
      Rows(rowContents) ==
        SelectSeq([i \in 1..Len(rowContents) |->
                     StripEach(ExecAll(reTd, rowContents[i], 1, TRUE))],
                  LAMBDA cells : Len(cells) > 0)
      Content(tableContent) ==
        Result(StripEach(ExecAll(reTh, tableContent, 1, TRUE)),
               Rows(ExecAll(reTr, tableContent, 1, TRUE)))
      Found(tableMatch) ==
        IF ~tableMatch.found THEN Text(html) ELSE Content(tableMatch.cap.s)
  IN Found(Exec(reTable, html, 1, TRUE))

\* text.split(/\r?\n/): the pieces between line breaks.
SplitLines(s) ==
  LET feeds == SelectSeq([i \in 1..Len(s) |-> i], LAMBDA i : s[i] = "\n")
      \* the separator that ends at line feed p starts at its carriage
      \* return when one precedes it
      start(p) == IF p > 1 /\ s[p - 1] = "\r" THEN p - 1 ELSE p
      from(k) == IF k = 1 THEN 1 ELSE feeds[k - 1] + 1
      to(k) == IF k > Len(feeds) THEN Len(s) ELSE start(feeds[k]) - 1
  IN [k \in 1..(Len(feeds) + 1) |-> SubSeq(s, from(k), to(k))]

\* text.split(/\r?\n/).filter(line => line.trim())
NonBlankLines(text) ==
  SelectSeq(SplitLines(text), LAMBDA line : Trim(line) # <<>>)

countDelimiterIgnoringQuotes(line, delimiter) ==
  Len(SelectSeq(line, LAMBDA c : c = delimiter))

\* Count occurrences of a delimiter in a line (considering quoted strings):
\* every quote character flips inQuotes, so at a character inQuotes is the
\* parity of the quotes before it.
countDelimiter(line, delimiter) ==
  LET quotes == SelectSeq([i \in 1..Len(line) |-> i], LAMBDA i : line[i] = "\"")
      inQuotes(p) == Len(SelectSeq(quotes, LAMBDA q : q < p)) % 2 = 1
  IN Len(SelectSeq([i \in 1..Len(line) |-> i],
                   LAMBDA p : line[p] = delimiter /\ ~inQuotes(p)))

\* One turn of the loop of parseCsvLine at index p; st.i is the index the
\* loop is at, so that the turn after an escaped quote is skipped (i++).
ParseCsvLineStep(line, delimiter, st, p) ==
  IF p # st.i THEN st
  ELSE IF line[p] = "\""
  THEN IF st.inQuotes /\ p < Len(line) /\ line[p + 1] = "\""
       THEN [st EXCEPT !.current = Append(@, "\""), !.i = p + 2]
       ELSE [st EXCEPT !.inQuotes = ~@, !.i = p + 1]
  ELSE IF line[p] = delimiter /\ ~st.inQuotes
  THEN [st EXCEPT !.result = Append(@, Trim(st.current)),
                  !.current = <<>>, !.i = p + 1]
  ELSE [st EXCEPT !.current = Append(@, line[p]), !.i = p + 1]

\* The loop over the indices lo..hi, from the state st.
RECURSIVE ParseCsvLineBetween(_, _, _, _, _)
ParseCsvLineBetween(line, delimiter, lo, hi, st) ==
  IF lo > hi THEN st
  ELSE IF lo = hi THEN ParseCsvLineStep(line, delimiter, st, lo)
  ELSE LET mid == (lo + hi) \div 2
           left == ParseCsvLineBetween(line, delimiter, lo, mid, st)
       IN IF left.i > hi THEN left
          ELSE ParseCsvLineBetween(line, delimiter, mid + 1, hi, left)

\* Parse a single CSV line respecting quoted fields
parseCsvLine(line, delimiter) ==
  LET st == ParseCsvLineBetween(line, delimiter, 1, Len(line),
              [result |-> <<>>, current |-> <<>>, inQuotes |-> FALSE, i |-> 1])
  IN Append(st.result, Trim(st.current))

Delimiters == <<"\t", ",", ";", "|">>

RECURSIVE DetectDelimiterLastWins(_, _, _)

RECURSIVE DetectDelimiter(_, _, _)

DetectDelimiterLastWins(lines, i, best) ==
  IF i > Len(Delimiters) THEN best
  ELSE LET delimiter == Delimiters[i]
           counts == [l \in 1..Len(lines) |-> countDelimiter(lines[l], delimiter)]
           firstCount == counts[1]
           consistent == Len(SelectSeq(counts, LAMBDA c : c = firstCount))
       IN IF firstCount = 0 THEN DetectDelimiterLastWins(lines, i + 1, best)
          ELSE IF consistent >= best.maxConsistency /\ firstCount >= 1
          THEN DetectDelimiterLastWins(lines, i + 1,
                 [bestDelimiter |-> delimiter, maxConsistency |-> consistent])
          ELSE DetectDelimiterLastWins(lines, i + 1, best)

\* The loop over the candidate delimiters from the i-th on; best is
\* [delimiter, consistency] so far.
DetectDelimiter(lines, i, best) ==
  IF i > Len(Delimiters) THEN best
  ELSE LET delimiter == Delimiters[i]
           counts == [l \in 1..Len(lines) |-> countDelimiter(lines[l], delimiter)]
           firstCount == counts[1]
           consistent == Len(SelectSeq(counts, LAMBDA c : c = firstCount))
       IN IF firstCount = 0 THEN DetectDelimiter(lines, i + 1, best)
          ELSE IF consistent > best.maxConsistency /\ firstCount >= 1
          THEN DetectDelimiter(lines, i + 1,
                 [bestDelimiter |-> delimiter, maxConsistency |-> consistent])
          ELSE DetectDelimiter(lines, i + 1, best)

parseDelimitedTextAboveThreshold(text) ==
  LET lines == NonBlankLines(text) IN
  IF Len(lines) < 2 THEN Text(text)
  ELSE LET bestDelimiter ==
             DetectDelimiter(lines, 1,
               [bestDelimiter |-> ",", maxConsistency |-> 0]).bestDelimiter
           firstLineCount == countDelimiter(lines[1], bestDelimiter)
       IN IF firstLineCount = 0 THEN Text(text)
          ELSE LET parsedRows == [l \in 1..Len(lines) |->
                                    parseCsvLine(lines[l], bestDelimiter)]
                   columnCount == Len(parsedRows[1])
                   consistentRows ==
                     SelectSeq(parsedRows, LAMBDA row : Len(row) = columnCount)
               IN IF 5 * Len(consistentRows) <= 4 * Len(lines)
                  THEN Text(text)
                  ELSE Table(Head(consistentRows), Tail(consistentRows))

\* Parse CSV or TSV text into structured data.  consistentRows.length <
\* lines.length * 0.8 is 5 * consistentRows.length < 4 * lines.length (the
\* double product decides the same for every length below 100000).
parseDelimitedText(text) ==
  LET lines == NonBlankLines(text) IN
  IF Len(lines) < 2 THEN Text(text)
  ELSE LET bestDelimiter ==
             DetectDelimiter(lines, 1,
               [bestDelimiter |-> ",", maxConsistency |-> 0]).bestDelimiter
           firstLineCount == countDelimiter(lines[1], bestDelimiter)
       IN IF firstLineCount = 0 THEN Text(text)
          ELSE LET parsedRows == [l \in 1..Len(lines) |->
                                    parseCsvLine(lines[l], bestDelimiter)]
                   columnCount == Len(parsedRows[1])
                   consistentRows ==
                     SelectSeq(parsedRows, LAMBDA row : Len(row) = columnCount)
               IN IF 5 * Len(consistentRows) < 4 * Len(lines)
                  THEN Text(text)
                  ELSE Table(Head(consistentRows), Tail(consistentRows))

---------------------------------------------------------------------------
(* part_003: parseHtmlProducts *)

H16 == In({"1","2","3","4","5","6"})

\* [\d,.]
PriceChars == In(DigitChars \cup {",", "."})

\* /<article[^>]*class="[^"]*product[^"]*"[^>]*>([\s\S]*?)<\/article>/gi
reArticle ==
  Cat(<<Lit(<<"<","a","r","t","i","c","l","e">>), Star(NotIn({">"})),
        Lit(<<"c","l","a","s","s","=","\"">>), Star(NotIn({"\""})),
        Lit(<<"p","r","o","d","u","c","t">>), Star(NotIn({"\""})), Lit(<<"\"">>),
        Star(NotIn({">"})), Lit(<<">">>), Cap(LazyStar(AnyChar)),
        Lit(<<"<","/","a","r","t","i","c","l","e",">">>)>>)

\* /title="([^"]+)"/i
reTitleAttr ==
  Cat(<<Lit(<<"t","i","t","l","e","=","\"">>), Cap(Plus(NotIn({"\""}))), Lit(<<"\"">>)>>)

\* /<h[1-6][^>]*>[\s\S]*?<a[^>]*>([^<]+)<\/a>/i
reHeadingLink ==
  Cat(<<Lit(<<"<","h">>), H16, Star(NotIn({">"})), Lit(<<">">>), LazyStar(AnyChar),
        Lit(<<"<","a">>), Star(NotIn({">"})), Lit(<<">">>), Cap(Plus(NotIn({"<"}))),
        Lit(<<"<","/","a",">">>)>>)

\* /<h[1-6][^>]*>([^<]+)<\/h[1-6]>/i
reHeading ==
  Cat(<<Lit(<<"<","h">>), H16, Star(NotIn({">"})), Lit(<<">">>), Cap(Plus(NotIn({"<"}))),
        Lit(<<"<","/","h">>), H16, Lit(<<">">>)>>)

\* class="[^"]*WORD[^"]*"[^>]*>([^<]+)<  for the class-name part given
reClassText(word) ==
  Cat(<<Lit(<<"c","l","a","s","s","=","\"">>), Star(NotIn({"\""})), Lit(word), Star(NotIn({"\""})), Lit(<<"\"">>),
        Star(NotIn({">"})), Lit(<<">">>), Cap(Plus(NotIn({"<"}))), Lit(<<"<">>)>>)

\* /class="[^"]*price[^"]*"[^>]*>([^<]+)</i
rePriceClass == reClassText(<<"p","r","i","c","e">>)

\* \$[\d,.]+|\£[\d,.]+|€[\d,.]+
reCurrencyAlts ==
  <<Cat(<<Lit(<<"$">>), Plus(PriceChars)>>),
    Cat(<<Lit(<<"U+00A3">>), Plus(PriceChars)>>),
    Cat(<<Lit(<<"U+20AC">>), Plus(PriceChars)>>)>>

\* /\$[\d,.]+|\£[\d,.]+|€[\d,.]+|[\d,.]+\s*(?:USD|EUR|GBP)/i
reCurrencyOrCode ==
  Alt(reCurrencyAlts \o
      <<Cat(<<Plus(PriceChars), Star(In(WhiteSpace)),
              Alt(<<Lit(<<"U","S","D">>), Lit(<<"E","U","R">>),
                    Lit(<<"G","B","P">>)>>)>>)>>)

\* /\$[\d,.]+|\£[\d,.]+|€[\d,.]+/
reCurrency == Alt(reCurrencyAlts)

\* /class="[^"]*star-rating\s+(\w+)[^"]*"/i
reStarRating ==
  Cat(<<Lit(<<"c","l","a","s","s","=","\"">>), Star(NotIn({"\""})), Lit(<<"s","t","a","r","-","r","a","t","i","n","g">>),
        Plus(In(WhiteSpace)), Cap(Plus(In(WordChars))), Star(NotIn({"\""})),
        Lit(<<"\"">>)>>)

\* /rating[^>]*>([^<]+)</i
reRatingText ==
  Cat(<<Lit(<<"r","a","t","i","n","g">>), Star(NotIn({">"})), Lit(<<">">>), Cap(Plus(NotIn({"<"}))), Lit(<<"<">>)>>)

\* /class="[^"]*availability[^"]*"[^>]*>[\s\S]*?<i[^>]*><\/i>\s*([^<]+)</i
reAvailability ==
  Cat(<<Lit(<<"c","l","a","s","s","=","\"">>), Star(NotIn({"\""})), Lit(<<"a","v","a","i","l","a","b","i","l","i","t","y">>), Star(NotIn({"\""})), Lit(<<"\"">>),
        Star(NotIn({">"})), Lit(<<">">>), LazyStar(AnyChar),
        Lit(<<"<","i">>), Star(NotIn({">"})), Lit(<<">","<","/","i",">">>),
        Star(In(WhiteSpace)), Cap(Plus(NotIn({"<"}))), Lit(<<"<">>)>>)

\* /class="[^"]*stock[^"]*"[^>]*>([^<]+)</i
reStockClass == reClassText(<<"s","t","o","c","k">>)

\* /(in stock|out of stock|available|unavailable)/i
reStockWords ==
  Cap(Alt(<<Lit(<<"i","n"," ","s","t","o","c","k">>),
            Lit(<<"o","u","t"," ","o","f"," ","s","t","o","c","k">>),
            Lit(<<"a","v","a","i","l","a","b","l","e">>),
            Lit(<<"u","n","a","v","a","i","l","a","b","l","e">>)>>))

\* /<img[^>]*src="([^"]+)"/i
reImg ==
  Cat(<<Lit(<<"<","i","m","g">>), Star(NotIn({">"})), Lit(<<"s","r","c","=","\"">>), Cap(Plus(NotIn({"\""}))), Lit(<<"\"">>)>>)

\* /<(?:div|li)[^>]*class="[^"]*product[^"]*"[^>]*>([\s\S]*?)<\/(?:div|li)>/gi
reDivOrLi ==
  Cat(<<Lit(<<"<">>), Alt(<<Lit(<<"d","i","v">>), Lit(<<"l","i">>)>>),
        Star(NotIn({">"})), Lit(<<"c","l","a","s","s","=","\"">>), Star(NotIn({"\""})),
        Lit(<<"p","r","o","d","u","c","t">>), Star(NotIn({"\""})), Lit(<<"\"">>),
        Star(NotIn({">"})), Lit(<<">">>), Cap(LazyStar(AnyChar)),
        Lit(<<"<","/">>), Alt(<<Lit(<<"d","i","v">>), Lit(<<"l","i">>)>>),
        Lit(<<">">>)>>)

\* /<(?:h[1-6]|a|span)[^>]*class="[^"]*(?:title|name|product-name)[^"]*"[^>]*>([^<]+)</i
reTitleClass ==
  Cat(<<Lit(<<"<">>),
        Alt(<<Cat(<<Lit(<<"h">>), H16>>), Lit(<<"a">>),
              Lit(<<"s","p","a","n">>)>>),
        Star(NotIn({">"})), Lit(<<"c","l","a","s","s","=","\"">>), Star(NotIn({"\""})),
        Alt(<<Lit(<<"t","i","t","l","e">>), Lit(<<"n","a","m","e">>),
              Lit(<<"p","r","o","d","u","c","t","-","n","a","m","e">>)>>),
        Star(NotIn({"\""})), Lit(<<"\"">>), Star(NotIn({">"})), Lit(<<">">>),
        Cap(Plus(NotIn({"<"}))), Lit(<<"<">>)>>)

\* /<a[^>]*>([^<]{5,})<\/a>/i
reLongLink ==
  Cat(<<Lit(<<"<","a">>), Star(NotIn({">"})), Lit(<<">">>),
        Cap(Rep(NotIn({"<"}), 5, TRUE)), Lit(<<"<","/","a",">">>)>>)

\* content.match(a) || content.match(b) || ... for the patterns res
RECURSIVE FirstMatch(_, _, _, _)
FirstMatch(res, i, content, ci) ==
  IF i > Len(res) THEN NoMatch
  ELSE LET Or(m) == IF m.found THEN m ELSE FirstMatch(res, i + 1, content, ci)
       IN Or(Exec(res[i], content, 1, ci))

\* m[1] || m[0]: the capture unless it is undefined or empty, else the match
CaptureOrMatch(content, m) ==
  IF Truthy(m.cap) THEN m.cap.s ELSE SubSeq(content, m.index, m.end - 1)

kTitle == <<"T","i","t","l","e">>

kPrice == <<"P","r","i","c","e">>

kRating == <<"R","a","t","i","n","g">>

kStock == <<"S","t","o","c","k">>

kImage == <<"I","m","a","g","e">>

\* One optional property of a product: <<>> when the pattern did not match.
Prop(m, key, text) == IF m.found THEN <<Field(key, Str(text))>> ELSE <<>>

\* product['Title'] || product['Price']
HasTitleOrPrice(product) ==
  Truthy(Get(product, kTitle)) \/ Truthy(Get(product, kPrice))

\* The body of the loop over <article> matches: the product of one card.
ArticleProduct(content) ==
  LET Title(titleMatch) ==
        Prop(titleMatch, kTitle, Trim(stripHtml(titleMatch.cap.s)))
      Price(priceMatch) ==
        Prop(priceMatch, kPrice,
             Trim(stripHtml(CaptureOrMatch(content, priceMatch))))
      Rating(ratingMatch) == Prop(ratingMatch, kRating, Trim(ratingMatch.cap.s))
      Stock(stockMatch) ==
        Prop(stockMatch, kStock, Trim(stripHtml(stockMatch.cap.s)))
      Image(imgMatch) == Prop(imgMatch, kImage, Trim(imgMatch.cap.s))
  IN Obj(Title(FirstMatch(<<reTitleAttr, reHeadingLink, reHeading>>, 1,
                          content, TRUE))
         \o Price(FirstMatch(<<rePriceClass, reCurrencyOrCode>>, 1,
                             content, TRUE))
         \o Rating(FirstMatch(<<reStarRating, reRatingText>>, 1,
                              content, TRUE))
         \o Stock(FirstMatch(<<reAvailability, reStockClass, reStockWords>>, 1,
                             content, TRUE))
         \o Image(Exec(reImg, content, 1, TRUE)))

\* The body of the loop over <div>/<li> matches.  The second price pattern
\* has no flag i.
DivProduct(content) ==
  LET Title(titleMatch) ==
        Prop(titleMatch, kTitle, Trim(stripHtml(titleMatch.cap.s)))
      Price(priceMatch) ==
        Prop(priceMatch, kPrice,
             Trim(stripHtml(CaptureOrMatch(content, priceMatch))))
      Or(priceClassMatch) ==
        IF priceClassMatch.found THEN priceClassMatch
        ELSE Exec(reCurrency, content, 1, FALSE)
  IN Obj(Title(FirstMatch(<<reTitleClass, reLongLink>>, 1, content, TRUE))
         \o Price(Or(Exec(rePriceClass, content, 1, TRUE))))

\* The keys of the objects, each once, by first appearance (a Set filled
\* by forEach, then Array.from).
RECURSIVE KeyUnion(_, _, _)
KeyUnion(objs, i, seen) ==
  IF i > Len(objs) THEN seen
  ELSE KeyUnion(objs, i + 1,
         seen \o SelectSeq(KeysOf(objs[i]),
                   LAMBDA key : \A j \in 1..Len(seen) : seen[j] # key))

\* product[h] || ''
TextOrEmpty(v) == IF Truthy(v) THEN v.s ELSE <<>>

ProductsTable(html, products) ==
  IF Len(products) = 0 THEN Text(html)
  ELSE LET Rows(headers) ==
             Table(headers,
                   [p \in 1..Len(products) |->
                      [h \in 1..Len(headers) |->
                         TextOrEmpty(Get(products[p], headers[h]))]])
       IN Rows(KeyUnion(products, 1, <<>>))

ArticleProducts(html) ==
  LET Each(contents) ==
        SelectSeq([i \in 1..Len(contents) |-> ArticleProduct(contents[i])],
                  HasTitleOrPrice)
  IN Each(ExecAll(reArticle, html, 1, TRUE))

DivProducts(html) ==
  LET Each(contents) ==
        SelectSeq([i \in 1..Len(contents) |-> DivProduct(contents[i])],
                  HasTitleOrPrice)
  IN Each(ExecAll(reDivOrLi, html, 1, TRUE))

parseHtmlProductsBothPasses(html) ==
  ProductsTable(html, ArticleProducts(html) \o DivProducts(html))

\* Parse HTML with product/article elements into structured data
parseHtmlProducts(html) ==
  LET Or(articles) ==
        ProductsTable(html,
          IF Len(articles) = 0 THEN DivProducts(html) ELSE articles)
  IN Or(ArticleProducts(html))

---------------------------------------------------------------------------
(* part_003: parseExtractedData *)

CellOfStringified(value) ==
  IF IsNullish(value) THEN <<>> ELSE JSONstringify(value)

\* One cell: '' for null and undefined, JSON.stringify for objects, else
\* String(value).
CellOf(value) ==
  IF IsNullish(value) THEN <<>>
  ELSE IF value.t \in {"object", "array"} THEN JSONstringify(value)
  ELSE StringOf(value)

parseArrayOfObjectsFirstRowKeys(elems) ==
  IF Len(elems) = 0 THEN Text(<<>>)
  ELSE IF \E i \in 1..Len(elems) : IsNullish(elems[i]) THEN Threw("TypeError")
  ELSE LET headers == KeysOf(elems[1])
       IN Table(headers,
                [i \in 1..Len(elems) |->
                   [h \in 1..Len(headers) |->
                      CellOf(GetProp(elems[i], headers[h]))]])

\* Parse an array of objects into table format.  Object.keys(obj) throws a
\* TypeError on a null or undefined element.
parseArrayOfObjects(elems) ==
  IF Len(elems) = 0 THEN Text(<<>>)
  ELSE IF \E i \in 1..Len(elems) : IsNullish(elems[i]) THEN Threw("TypeError")
  ELSE LET headers == KeyUnion(elems, 1, <<>>)
       IN Table(headers,
                [i \in 1..Len(elems) |->
                   [h \in 1..Len(headers) |->
                      CellOf(GetProp(elems[i], headers[h]))]])

kProperty == <<"P","r","o","p","e","r","t","y">>

kValue == <<"V","a","l","u","e">>

\* Parse a single object into key-value table format (Object.entries).
parseObject(obj) ==
  LET keys == KeysOf(obj) IN
  IF Len(keys) = 0 THEN Text(<<"{", "}">>)
  ELSE Table(<<kProperty, kValue>>,
             [i \in 1..Len(keys) |-> <<keys[i], CellOf(GetProp(obj, keys[i]))>>])

\* typeof v === 'object' && v !== null
IsObjectLike(v) == v.t \in {"object", "array"}

\* A non-empty array: rows of objects, or a one-column table of primitives.
ArrayTable(elems) ==
  IF IsObjectLike(elems[1]) THEN parseArrayOfObjects(elems)
  ELSE Table(<<kValue>>, [i \in 1..Len(elems) |-> <<StringOf(elems[i])>>])

NotAccepted == [accepted |-> FALSE]

Accepted(value) == [accepted |-> TRUE, value |-> value]

\* Model text outside what JSONparse decides (see JsonUnmodelled).
Unmodelled == [threw |-> FALSE, type |-> "unmodelled"]

sTableLower == <<"<","t","a","b","l","e">>

sTableUpper == <<"<","T","A","B","L","E">>

sArticle == <<"<","a","r","t","i","c","l","e">>

sDiv == <<"<","d","i","v">>

\* The try block: JSON.parse of a text starting with '['; a SyntaxError and
\* a TypeError of parseArrayOfObjects are both caught.
TryJsonArray(trimmed) ==
  IF ~StartsWithAt(trimmed, 1, <<"[">>) THEN NotAccepted
  ELSE LET Returned(t) == IF t.threw THEN NotAccepted ELSE Accepted(t)
           Parsed(r) ==
             IF r.st = "unmodelled" THEN Accepted(Unmodelled)
             ELSE IF r.st = "ok" /\ r.v.t = "array" /\ Len(r.v.a) > 0
             THEN Returned(ArrayTable(r.v.a))
             ELSE NotAccepted
       IN Parsed(JSONparse(trimmed))

\* parsed.type === 'table' && parsed.rows && parsed.rows.length > n
AcceptTable(t, n) ==
  IF t.type = "table" /\ Len(t.rows) > n THEN Accepted(t) ELSE NotAccepted

TryHtmlTable(trimmed) ==
  IF Includes(trimmed, sTableLower) \/ Includes(trimmed, sTableUpper)
  THEN AcceptTable(parseHtmlTable(trimmed), 0)
  ELSE NotAccepted

TryHtmlProducts(trimmed) ==
  IF Includes(trimmed, sArticle) \/ Includes(trimmed, sDiv)
  THEN AcceptTable(parseHtmlProducts(trimmed), 0)
  ELSE NotAccepted

TryDelimited(trimmed) == AcceptTable(parseDelimitedText(trimmed), 1)

\* return the result of an attempt that accepted, else go on
OrElse(attempt, otherwise) ==
  IF attempt.accepted THEN attempt.value ELSE otherwise

parseStringProductsFirst(s) ==
  LET Of(trimmed) ==
        OrElse(TryJsonArray(trimmed),
          OrElse(TryHtmlProducts(trimmed),
            OrElse(TryHtmlTable(trimmed),
              OrElse(TryDelimited(trimmed),
                Text(trimmed)))))
  IN Of(Trim(s))

\* Priority 2: a string payload
parseString(s) ==
  LET Of(trimmed) ==
        OrElse(TryJsonArray(trimmed),
          OrElse(TryHtmlTable(trimmed),
            OrElse(TryHtmlProducts(trimmed),
              OrElse(TryDelimited(trimmed),
                Text(trimmed)))))
  IN Of(Trim(s))

\* Parse extracted data and detect its structure
parseExtractedData(d) ==
  IF ~Truthy(d) THEN Text(<<>>)
  ELSE IF d.t = "array" /\ Len(d.a) > 0 THEN ArrayTable(d.a)
  ELSE IF d.t = "string" THEN parseString(d.s)
  ELSE IF IsObjectLike(d) THEN parseObject(d)
  ELSE Text(StringOf(d))

---------------------------------------------------------------------------
(* download-utils.ts: a Table turned back into an array of row objects *)

\* A canonical array index: such keys come first in an object, in ascending
\* order, whenever they are assigned.
IsArrayIndex(key) == IsIndexKey(key) /\ key = NumStr(NatVal(key))

\* obj[key] = v on the fields of an object
AssignProp(fields, key, v) ==
  IF \E i \in 1..Len(fields) : fields[i].k = key
  THEN [i \in 1..Len(fields) |->
          IF fields[i].k = key THEN Field(key, v) ELSE fields[i]]
  ELSE IF IsArrayIndex(key)
  THEN SelectSeq(fields, LAMBDA f : IsArrayIndex(f.k) /\ NatVal(f.k) < NatVal(key))
         \o <<Field(key, v)>>
         \o SelectSeq(fields,
               LAMBDA f : ~(IsArrayIndex(f.k) /\ NatVal(f.k) < NatVal(key)))
  ELSE Append(fields, Field(key, v))

RECURSIVE RowObject(_, _, _, _)

\* headers.forEach((header, index) => { obj[header] = row[index] || '' })
RowObject(headers, row, index, fields) ==
  IF index > Len(headers) THEN Obj(fields)
  ELSE RowObject(headers, row, index + 1,
         AssignProp(fields, headers[index],
           Str(IF index <= Len(row) THEN row[index] ELSE <<>>)))

\* The data of downloadAsJSON: one object per row, keyed by the headers.
RowObjectsOf(headers, rows) ==
  [i \in 1..Len(rows) |-> RowObject(headers, rows[i], 1, <<>>)]

---------------------------------------------------------------------------
(* extractor-manifest.ts: the manifest file and addExtractorToManifest *)

\* The content of a file that is missing, truncated or no JSON: readFile
\* or JSON.parse throws on it.
Unreadable == [readable |-> FALSE, extractors |-> <<>>]

\* The content of a file that holds the JSON of a manifest.
Manifest(extractors) == [readable |-> TRUE, extractors |-> extractors]

ExtractorEntry(name, urlPattern) == [name |-> name, urlPattern |-> urlPattern]

\* Load the extractor manifest from disk: its extractors, none if the file
\* cannot be read or parsed.
loadManifest(content) == IF content.readable THEN content.extractors ELSE <<>>

\* extractors.findIndex(e => e.name === name), counted from 1; 0 is JS -1.
FindIndex(extractors, name) ==
  IF \E i \in 1..Len(extractors) : extractors[i].name = name
  THEN CHOOSE i \in 1..Len(extractors) :
         /\ extractors[i].name = name
         /\ \A j \in 1..(i - 1) : extractors[j].name # name
  ELSE 0

WithEntryAppended(extractors, entry) == Append(extractors, entry)

\* Update the existing entry of that name, or add a new entry.
WithEntry(extractors, entry) ==
  LET existingIndex == FindIndex(extractors, entry.name)
  IN IF existingIndex >= 1
     THEN [extractors EXCEPT ![existingIndex] = entry]
     ELSE Append(extractors, entry)

---------------------------------------------------------------------------
(* use-extension.ts: the useExtension hook *)

\* The result the timer resolves a call with.
TimedOut == [success |-> FALSE, error |-> "timed out"]

\* `tool_${++messageIdCounter.current}_${Date.now()}`: distinct for every
\* value of the counter, which is what stands for it here.
MessageId(counter) == counter

NoEvent == [type |-> "none"]

\* A TOOL_RESULT message of the window, and the firing of a call's timer.
ToolResult(messageId, value) ==
  [type |-> "TOOL_RESULT", messageId |-> messageId, payload |-> value]

TimerFired(messageId) == [type |-> "timer", messageId |-> messageId]

DeletedNever(pending, messageId) == pending

\* pendingCallbacks.current.delete(messageId)
Deleted(pending, messageId) == pending \ {messageId}

\* resolve(value) of the promise of the call with that messageId: the
\* values it was called with, in order.
Resolved(all, messageId, value) ==
  [all EXCEPT ![messageId] = Append(all[messageId], value)]

---------------------------------------------------------------------------
(* The callers' inputs *)

MaxRows == 4

cTitle == <<"t","i","t","l","e">>

cPrice == <<"p","r","i","c","e">>

cTtl == <<"t","t","l">>

\* The rows a caller may pass: string-valued records, rows with null or
\* undefined values, a row without fields, and a null row.
RowSet ==
  { Obj(<<Field(cTitle, Str(<<"A">>)), Field(cPrice, Str(<<"$","1">>))>>),
    Obj(<<Field(cTitle, Str(<<"A">>)), Field(cPrice, Str(<<>>))>>),
    Obj(<<Field(cTitle, Str(<<" ">>)), Field(cPrice, Null)>>),
    Obj(<<Field(cTtl, Str(<<"A">>)), Field(cPrice, Undefined)>>),
    Obj(<<>>),
    Null }

\* The expectations a caller may state: expectedColumns and expectedMinRows.
ExpectationSet ==
  { <<Undefined, Undefined>>,
    <<Arr(<<>>), Num(0)>>,
    <<Arr(<<cTitle>>), Num(3)>>,
    <<Arr(<<<<"T","i","t","l","e">>, <<"n","a","m","e">>>>), Undefined>>,
    <<Arr(<<<<"p","r">>, <<"s","u","b","t","i","t","l","e">>>>), Num(3)>>,
    <<Arr(<<<<"n","a","m","e">>, <<"t","i","p">>>>), Num(0)>> }

\* Results a caller of formatValidationMessage may have built itself.
GivenIssue(severity) == Issue("empty_field", <<"m">>, severity, Undefined)

GivenResults ==
  { ValidationResult(v, 0, n, iss) :
      v \in BOOLEAN, n \in {0, MaxRows},
      iss \in UNION {[1..k -> {GivenIssue("error"), GivenIssue("warning")}] :
                       k \in 0..2} }

MaxParts == 2

MaxElems == 3

\* The pieces a string payload is put together from.

\* A JSON array of row objects with different keys.
pJsonRows ==
  <<"[","{","\"","a","\"",":","1","}",",","{","\"","b","\"",":","\"","x",
    "\"","}","]">>

\* A JSON array whose second row is null.
pJsonNullRow ==
  <<"[","{","\"","a","\"",":","1","}",",","n","u","l","l","]">>

\* An opening bracket: what follows it starts like a JSON array.
pBracket ==
  <<"[">>

\* A table whose data row has fewer cells than there are headers.
pTableRagged ==
  <<"<","t","a","b","l","e",">","<","t","r",">","<","t","h",">","h","<","/",
    "t","h",">","<","t","h",">","k","<","/","t","h",">","<","/","t","r",">",
    "<","t","r",">","<","t","d",">","1","<","/","t","d",">","<","/","t","r",
    ">","<","/","t","a","b","l","e",">">>

\* An upper-case table without header cells.
pTableUpper ==
  <<"<","T","A","B","L","E",">","<","t","r",">","<","t","d",">","a","<","/",
    "t","d",">","<","/","t","r",">","<","t","r",">","<","t","d",">","1","<",
    "/","t","d",">","<","/","t","r",">","<","/","T","A","B","L","E",">">>

\* A table whose tag is in mixed case.
pTableMixed ==
  <<"<","T","a","b","l","e",">","<","t","r",">","<","t","d",">","a","<","/",
    "t","d",">","<","/","t","r",">","<","t","r",">","<","t","d",">","1","<",
    "/","t","d",">","<","/","t","r",">","<","/","T","a","b","l","e",">">>

\* A table without header cells and with a single row.
pTableOneRow ==
  <<"<","t","a","b","l","e",">","<","t","r",">","<","t","d",">","a","<","/",
    "t","d",">","<","/","t","r",">","<","/","t","a","b","l","e",">">>

\* A product card in an article element.
pArticle ==
  <<"<","a","r","t","i","c","l","e"," ","c","l","a","s","s","=","\"","p",
    "r","o","d","u","c","t","\"",">","<","h","3",">","T","<","/","h","3",
    ">","$","1","<","/","a","r","t","i","c","l","e",">">>

\* A product card in a div element.
pDivProduct ==
  <<"<","d","i","v"," ","c","l","a","s","s","=","\"","p","r","o","d","u",
    "c","t","\"",">","<","a",">","T","i","t","l","e","<","/","a",">","<",
    "/","d","i","v",">">>

\* A div that is no product card.
pDiv ==
  <<"<","d","i","v",">","x","<","/","d","i","v",">">>

\* Three comma-separated lines.
pCsvThree ==
  <<"a",",","b","\n","1",",","2","\n","3",",","4">>

\* Two comma-separated lines.
pCsvTwo ==
  <<"a",",","b","\n","1",",","2">>

\* Five comma-separated lines, the last with a single field.
pCsvShortLine ==
  <<"a",",","b","\n","1",",","2","\n","3",",","4","\n","5",",","6","\n","7">>

\* A line break.
pNewline ==
  <<"\n">>

PartSet ==
  { pJsonRows, pJsonNullRow, pBracket, pTableRagged,
    pTableUpper, pTableMixed, pTableOneRow, pArticle,
    pDivProduct, pDiv, pCsvThree, pCsvTwo,
    pCsvShortLine, pNewline }

MaxLines == 5

\* The lines a delimited text is put together from.

\* A quoted field that holds a comma and a doubled quote, then a comma.
lQuoted ==
  <<"\"","a",",","\"","\"","b","\"",",","c">>

\* A comma and a semicolon.
lCommaSemicolon ==
  <<"a",";","b",",","c">>

\* A semicolon.
lSemicolon ==
  <<"1",";","2">>

\* A quote that is never closed before a comma: no delimiter is counted.
lOpenQuote ==
  <<"x","\"","y",",","z">>

\* A blank line.
lBlank ==
  <<" ">>

\* A pipe and a tab.
lPipeTab ==
  <<"p","|","q","\t","r">>

LineSet ==
  { lQuoted, lCommaSemicolon, lSemicolon, lOpenQuote, lBlank, lPipeTab }

MaxCards == 3

\* The product cards a page is put together from.

\* An article card with a title.
cArticleTitle ==
  <<"<","a","r","t","i","c","l","e"," ","c","l","a","s","s","=","\"","p",
    "r","o","d","u","c","t","\"",">","<","h","3",">","T","<","/","h","3",
    ">","<","/","a","r","t","i","c","l","e",">">>

\* An article card with a price and an image.
cArticlePrice ==
  <<"<","a","r","t","i","c","l","e"," ","c","l","a","s","s","=","\"","p",
    "r","o","d","u","c","t","_","p","o","d","\"",">","$","1","<","i","m",
    "g"," ","s","r","c","=","\"","u","\"",">","<","/","a","r","t","i","c",
    "l","e",">">>

\* An article card with a stock text only.
cArticleStock ==
  <<"<","a","r","t","i","c","l","e"," ","c","l","a","s","s","=","\"","p",
    "r","o","d","u","c","t","\"",">","i","n"," ","s","t","o","c","k","<",
    "/","a","r","t","i","c","l","e",">">>

\* A div card with a title.
cDivTitle ==
  <<"<","d","i","v"," ","c","l","a","s","s","=","\"","p","r","o","d","u",
    "c","t","\"",">","<","a",">","T","i","t","l","e","<","/","a",">","<",
    "/","d","i","v",">">>

\* A list item card with a price.
cLiPrice ==
  <<"<","l","i"," ","c","l","a","s","s","=","\"","p","r","o","d","u","c",
    "t","\"",">","$","2","<","/","l","i",">">>

\* An article card with a blank title and a price.
cArticleBlankTitle ==
  <<"<","a","r","t","i","c","l","e"," ","c","l","a","s","s","=","\"","p",
    "r","o","d","u","c","t","\"",">","<","h","3",">"," ","<","/","h","3",
    ">","$","3","<","/","a","r","t","i","c","l","e",">">>

CardSet ==
  { cArticleTitle, cArticlePrice, cArticleStock, cDivTitle, cLiPrice,
    cArticleBlankTitle }

MaxAdds == 2

\* The names of the extractors that are added.
NameSet == {"x", "y"}

\* What the manifest file holds before the calls: nothing readable (no
\* file), no extractor, or two extractors of which one has a name that is
\* added again.
BeforeSet ==
  { Unreadable, Manifest(<<>>),
    Manifest(<<ExtractorEntry("x", 0), ExtractorEntry("w", 0)>>) }

MaxTools == 2

\* The payloads of the extension's TOOL_RESULT messages.
ToolPayloadSet ==
  { [success |-> TRUE, error |-> "none"],
    [success |-> FALSE, error |-> "no active tab"] }

kA == <<"a">>

kB == <<"b">>

\* The elements of an array payload: row objects with different keys, a
\* nested value, a row without keys, a row with an index-like key, and
\* elements that are no objects.
ElemSet ==
  { Obj(<<Field(kA, Num(1)), Field(kB, Str(<<"x">>))>>),
    Obj(<<Field(<<"1">>, Str(<<"y">>))>>),
    Obj(<<Field(kB, Null), Field(cTitle, Bool(TRUE))>>),
    Obj(<<Field(kA, Obj(<<Field(kB, Num(2))>>))>>),
    Obj(<<>>),
    Arr(<<Num(7)>>),
    Str(<<"s">>),
    Null }

\* The payloads that are neither built from pieces nor from elements.
PayloadSet ==
  { Undefined, Null, Num(0), Num(5), Bool(FALSE), Bool(TRUE),
    Str(<<>>), Arr(<<>>), Obj(<<>>),
    Obj(<<Field(kA, Num(1)), Field(kB, Arr(<<Num(1), Str(<<"x">>)>>))>>) }

NoParsed == Text(<<>>)

\* Nothing goes on in the manifest: a missing file, no call.
IdleManifest ==
  /\ file = Unreadable
  /\ before = Unreadable
  /\ calls = <<>>

\* The hook as it is after mounting.
IdleExtension ==
  /\ pendingCallbacks = {}
  /\ messageIdCounter = 0
  /\ isExecuting = FALSE
  /\ timers = {}
  /\ resolutions = <<>>
  /\ event = NoEvent

NoParams == [data |-> Undefined, expectedColumns |-> Undefined,
             expectedMinRows |-> Undefined]

NoResult == [threw |-> FALSE, isValid |-> FALSE, validRows |-> 0,
             totalRows |-> 0, issues |-> <<>>]

---------------------------------------------------------------------------
(* The validator as a state machine: a caller builds its rows, validates   *)
(* them against its expectations, and formats the verdict.                 *)

InitValidate ==
  /\ pc = "build"
  /\ data = <<>>
  /\ params = NoParams
  /\ result = NoResult
  /\ message = <<>>
  /\ payload = Undefined
  /\ nparts = 0
  /\ parsed = NoParsed
  /\ IdleManifest
  /\ IdleExtension

AddRow ==
  /\ pc = "build"
  /\ Len(data) < MaxRows
  /\ \E r \in RowSet : data' = Append(data, r)
  /\ UNCHANGED <<pc, params, result, message, parsing,
               manifestState, extensionState>>

Validate ==
  /\ pc = "build"
  /\ \E d \in (IF data = <<>> THEN {Undefined, Null, Arr(<<>>)} ELSE {Arr(data)}),
        e \in ExpectationSet :
        /\ params' = [data |-> d, expectedColumns |-> e[1],
                      expectedMinRows |-> e[2]]
        /\ result' = validateExtraction(params')
  /\ pc' = "validated"
  /\ UNCHANGED <<data, message, parsing, manifestState, extensionState>>

GiveResult ==
  /\ pc = "build"
  /\ data = <<>>
  /\ \E r \in GivenResults : result' = r
  /\ pc' = "given"
  /\ UNCHANGED <<data, params, message, parsing,
               manifestState, extensionState>>

Format ==
  /\ pc \in {"validated", "given"}
  /\ ~result.threw
  /\ message = <<>>
  /\ message' = formatValidationMessage(result)
  /\ UNCHANGED <<pc, data, params, result, parsing,
               manifestState, extensionState>>

\* rows with row put in after the first at of them
InsertRow(rows, at, row) ==
  SubSeq(rows, 1, at) \o <<row>> \o SubSeq(rows, at + 1, Len(rows))

\* The caller adds a completely empty row to a dataset it had validated and
\* validates again, with the same expectations.
Revalidate ==
  /\ pc \in {"validated", "revalidated"}
  /\ ~result.threw
  /\ message = <<>>
  /\ Len(data) < MaxRows
  /\ \E row \in {r \in RowSet : r.t = "object" /\ IsCompletelyEmptyRow(r)},
        at \in 0..Len(data) :
        /\ data' = InsertRow(data, at, row)
        /\ params' = [params EXCEPT !.data = Arr(data')]
        /\ result' = validateExtraction(params')
  /\ pc' = "revalidated"
  /\ UNCHANGED <<message, parsing, manifestState, extensionState>>

NextValidate == AddRow \/ Validate \/ GiveResult \/ Format \/ Revalidate

SpecValidate == InitValidate /\ [][NextValidate]_vars

---------------------------------------------------------------------------
(* The parser as a state machine: a caller holds a payload (a string put   *)
(* together from pieces, an array filled with elements, or another value)  *)
(* and has parseExtractedData parse it.                                    *)

InitParse ==
  /\ pc = "input"
  /\ payload \in PayloadSet
  /\ nparts = 0
  /\ parsed = NoParsed
  /\ data = <<>>
  /\ params = NoParams
  /\ result = NoResult
  /\ message = <<>>
  /\ IdleManifest
  /\ IdleExtension

AppendPart ==
  /\ pc = "input"
  /\ payload.t = "string"
  /\ nparts < MaxParts
  /\ \E part \in PartSet : payload' = Str(payload.s \o part)
  /\ nparts' = nparts + 1
  /\ UNCHANGED <<pc, parsed, validation, manifestState, extensionState>>

AddElem ==
  /\ pc = "input"
  /\ payload.t = "array"
  /\ Len(payload.a) < MaxElems
  /\ \E elem \in ElemSet : payload' = Arr(Append(payload.a, elem))
  /\ UNCHANGED <<pc, nparts, parsed, validation,
               manifestState, extensionState>>

Parse ==
  /\ pc = "input"
  /\ parsed' = parseExtractedData(payload)
  /\ pc' = "parsed"
  /\ UNCHANGED <<payload, nparts, validation, manifestState, extensionState>>

\* A caller that knows its text to be delimited calls the exported
\* parseDelimitedText itself.
ParseDelimited ==
  /\ pc = "input"
  /\ payload.t = "string"
  /\ parsed' = parseDelimitedText(payload.s)
  /\ pc' = "delimited"
  /\ UNCHANGED <<payload, nparts, validation, manifestState, extensionState>>

\* A caller that knows its text to hold a table calls the exported
\* parseHtmlTable itself.
ParseTable ==
  /\ pc = "input"
  /\ payload.t = "string"
  /\ parsed' = parseHtmlTable(payload.s)
  /\ pc' = "table"
  /\ UNCHANGED <<payload, nparts, validation, manifestState, extensionState>>

\* The caller turns the table it got back into row objects, as the JSON
\* export does, and has them parsed.
Reparse ==
  /\ pc = "parsed"
  /\ ~parsed.threw
  /\ parsed.type = "table"
  /\ parsed' = parseExtractedData(Arr(RowObjectsOf(parsed.headers, parsed.rows)))
  /\ pc' = "reparsed"
  /\ UNCHANGED <<payload, nparts, validation, manifestState, extensionState>>

NextParse ==
  AppendPart \/ AddElem \/ Parse \/ ParseDelimited \/ ParseTable \/ Reparse

SpecParse == InitParse /\ [][NextParse]_vars

---------------------------------------------------------------------------
(* Delimited text as a state machine: a caller puts a text together line   *)
(* by line and has parseDelimitedText parse it.                            *)

InitDelimited ==
  /\ pc = "input"
  /\ payload = Str(<<>>)
  /\ nparts = 0
  /\ parsed = NoParsed
  /\ data = <<>>
  /\ params = NoParams
  /\ result = NoResult
  /\ message = <<>>
  /\ IdleManifest
  /\ IdleExtension

AppendLine ==
  /\ pc = "input"
  /\ nparts < MaxLines
  /\ \E line \in LineSet :
       payload' = Str(IF nparts = 0 THEN line
                      ELSE payload.s \o <<"\n">> \o line)
  /\ nparts' = nparts + 1
  /\ UNCHANGED <<pc, parsed, validation, manifestState, extensionState>>

NextDelimited == AppendLine \/ ParseDelimited

SpecDelimited == InitDelimited /\ [][NextDelimited]_vars

---------------------------------------------------------------------------
(* Product pages as a state machine: a caller puts a page together card by *)
(* card and has parseHtmlProducts parse it.                                *)

InitProducts ==
  /\ pc = "input"
  /\ payload = Str(<<>>)
  /\ nparts = 0
  /\ parsed = NoParsed
  /\ data = <<>>
  /\ params = NoParams
  /\ result = NoResult
  /\ message = <<>>
  /\ IdleManifest
  /\ IdleExtension

AppendCard ==
  /\ pc = "input"
  /\ nparts < MaxCards
  /\ \E card \in CardSet : payload' = Str(payload.s \o card)
  /\ nparts' = nparts + 1
  /\ UNCHANGED <<pc, parsed, validation, manifestState, extensionState>>

ParseProducts ==
  /\ pc = "input"
  /\ parsed' = parseHtmlProducts(payload.s)
  /\ pc' = "products"
  /\ UNCHANGED <<payload, nparts, validation, manifestState, extensionState>>

NextProducts == AppendCard \/ ParseProducts

SpecProducts == InitProducts /\ [][NextProducts]_vars

---------------------------------------------------------------------------
(* The manifest as a state machine: requests call addExtractorToManifest,  *)
(* and each call goes on at its awaits: it reads the file, then opens it   *)
(* for writing, which truncates it, then writes it.                        *)

InitManifest ==
  /\ pc = "manifest"
  /\ file \in BeforeSet
  /\ before = file
  /\ calls = <<>>
  /\ IdleExtension
  /\ payload = Undefined
  /\ nparts = 0
  /\ parsed = NoParsed
  /\ data = <<>>
  /\ params = NoParams
  /\ result = NoResult
  /\ message = <<>>

\* generateExtractor.execute calls addExtractorToManifest; the entry's
\* urlPattern tells the calls apart.
CallAdd ==
  /\ Len(calls) < MaxAdds
  /\ \E name \in NameSet :
       calls' = Append(calls,
                  [at |-> "load",
                   entry |-> ExtractorEntry(name, Len(calls) + 1),
                   loaded |-> <<>>,
                   manifest |-> <<>>])
  /\ UNCHANGED <<pc, file, before, validation, parsing, extensionState>>

\* await loadManifest(), then the update of the loaded manifest
Load(c) ==
  /\ calls[c].at = "load"
  /\ calls' = [calls EXCEPT
                 ![c].loaded = loadManifest(file),
                 ![c].manifest = WithEntry(loadManifest(file), calls[c].entry),
                 ![c].at = "save"]
  /\ UNCHANGED <<pc, file, before, validation, parsing, extensionState>>

\* saveManifest: fs.writeFile opens the file, which truncates it
OpenForWrite(c) ==
  /\ calls[c].at = "save"
  /\ file' = Unreadable
  /\ calls' = [calls EXCEPT ![c].at = "write"]
  /\ UNCHANGED <<pc, before, validation, parsing, extensionState>>

\* saveManifest: fs.writeFile writes the manifest
WriteManifest(c) ==
  /\ calls[c].at = "write"
  /\ file' = Manifest(calls[c].manifest)
  /\ calls' = [calls EXCEPT ![c].at = "done"]
  /\ UNCHANGED <<pc, before, validation, parsing, extensionState>>

NextManifest ==
  \/ CallAdd
  \/ \E c \in 1..Len(calls) : Load(c) \/ OpenForWrite(c) \/ WriteManifest(c)

SpecManifest == InitManifest /\ [][NextManifest]_vars

---------------------------------------------------------------------------
(* The hook as a state machine: the page calls executeTool, the window     *)
(* delivers TOOL_RESULT messages with any messageId, and the timers fire.  *)

InitExtension ==
  /\ pc = "extension"
  /\ IdleExtension
  /\ IdleManifest
  /\ payload = Undefined
  /\ nparts = 0
  /\ parsed = NoParsed
  /\ data = <<>>
  /\ params = NoParams
  /\ result = NoResult
  /\ message = <<>>

\* executeTool: a new messageId, isExecuting, the callback, the timer
ExecuteTool ==
  /\ messageIdCounter < MaxTools
  /\ messageIdCounter' = messageIdCounter + 1
  /\ isExecuting' = TRUE
  /\ pendingCallbacks' = pendingCallbacks \cup {MessageId(messageIdCounter')}
  /\ timers' = timers \cup {MessageId(messageIdCounter')}
  /\ resolutions' = Append(resolutions, <<>>)
  /\ UNCHANGED <<pc, event, validation, parsing, manifestState>>

\* handleMessage with a TOOL_RESULT: the callback of that messageId, if
\* there is one, is called and deleted; isExecuting is set to false.
HandleToolResult ==
  \E messageId \in 0..MaxTools, value \in ToolPayloadSet :
    /\ event' = ToolResult(messageId, value)
    /\ IF messageId \in pendingCallbacks
       THEN /\ resolutions' = Resolved(resolutions, messageId, value)
            /\ pendingCallbacks' = Deleted(pendingCallbacks, messageId)
       ELSE UNCHANGED <<resolutions, pendingCallbacks>>
    /\ isExecuting' = FALSE
    /\ UNCHANGED <<pc, messageIdCounter, timers, validation, parsing,
                   manifestState>>

\* The function given to setTimeout runs, 30 seconds after the call.
Timeout ==
  \E messageId \in timers :
    /\ timers' = timers \ {messageId}
    /\ event' = TimerFired(messageId)
    /\ IF messageId \in pendingCallbacks
       THEN /\ pendingCallbacks' = Deleted(pendingCallbacks, messageId)
            /\ isExecuting' = FALSE
            /\ resolutions' = Resolved(resolutions, messageId, TimedOut)
       ELSE UNCHANGED <<pendingCallbacks, isExecuting, resolutions>>
    /\ UNCHANGED <<pc, messageIdCounter, validation, parsing, manifestState>>

NextExtension == ExecuteTool \/ HandleToolResult \/ Timeout

SpecExtension == InitExtension /\ [][NextExtension]_vars

---------------------------------------------------------------------------
(* Properties of the validator, checked under SpecValidate *)

Validated == pc = "validated" /\ ~result.threw

\* validateExtraction got a non-empty array and returned a result.
ValidatedRows ==
  /\ Validated
  /\ params.data.t = "array"
  /\ Len(params.data.a) > 0

IssuesOfType(type) == SelectSeq(result.issues, LAMBDA i : i.type = type)

\* C1: the returned isValid is true if and only if no returned issue has
\* severity error; a result whose issues are all warnings is valid.
C1_IsValidIffNoErrorIssue ==
  Validated =>
    (result.isValid <=>
       ~ \E i \in 1..Len(result.issues) : result.issues[i].severity = "error")

C1_WitnessOnlyWarnings ==
  /\ Validated
  /\ Len(result.issues) > 1
  /\ \A i \in 1..Len(result.issues) : result.issues[i].severity = "warning"
  /\ result.isValid

\* C2: empty or absent data returns exactly the invalid result with zero
\* counts and the single insufficient_rows error "No data was extracted",
\* expected = expectedMinRows if given else 1, actual = 0, whatever
\* expectedColumns is.
C2_EmptyDataResult ==
  (pc = "validated" /\ (IsNullish(params.data) \/ Len(params.data.a) = 0)) =>
    result =
      [threw |-> FALSE, isValid |-> FALSE, validRows |-> 0, totalRows |-> 0,
       issues |->
         <<[type |-> "insufficient_rows",
            message |-> <<"No data was extracted">>,
            severity |-> "error",
            details |->
              [expected |-> IF params.expectedMinRows.t = "number"
                            THEN params.expectedMinRows.n ELSE 1,
               actual |-> 0]]>>]

C2_WitnessEmptyWithExpectations ==
  /\ pc = "validated"
  /\ params.data = Arr(<<>>)
  /\ params.expectedColumns.t = "array"
  /\ Len(params.expectedColumns.a) > 0
  /\ params.expectedMinRows = Num(0)
  /\ Len(result.issues) = 1

\* The strings one insertion, deletion or substitution away from s, with
\* the inserted and substituted characters drawn from Sigma.
OneEdit(s, Sigma) ==
  {SubSeq(s, 1, i - 1) \o SubSeq(s, i + 1, Len(s)) : i \in 1..Len(s)}
  \cup {SubSeq(s, 1, i - 1) \o <<c>> \o SubSeq(s, i + 1, Len(s)) :
          i \in 1..Len(s), c \in Sigma}
  \cup {SubSeq(s, 1, i) \o <<c>> \o SubSeq(s, i + 1, Len(s)) :
          i \in 0..Len(s), c \in Sigma}

\* Levenshtein distance at most 2, by its definition: a and b are equal, one
\* edit apart, or one edit each from a common string.
WithinTwoEdits(a, b) ==
  LET Sigma == {a[i] : i \in 1..Len(a)} \cup {b[i] : i \in 1..Len(b)}
  IN \/ a = b
     \/ b \in OneEdit(a, Sigma)
     \/ OneEdit(a, Sigma) \cap OneEdit(b, Sigma) # {}

ColumnPresent(row, expected) ==
  \E i \in 1..Len(row.f) :
    LET actual == ToLowerCase(row.f[i].k)
        wanted == ToLowerCase(expected)
    IN \/ Includes(actual, wanted)
       \/ Includes(wanted, actual)
       \/ WithinTwoEdits(actual, wanted)

\* C6: with non-empty expectedColumns and non-empty data, an expected column
\* is present iff some key of the first row, case-insensitively, contains
\* it, is contained in it or is within Levenshtein distance 2 of it; when
\* some are not present exactly one missing_column error names them all,
\* and when all are present there is no missing_column issue.
C6_MissingColumns ==
  (ValidatedRows /\ params.expectedColumns.t = "array"
     /\ Len(params.expectedColumns.a) > 0) =>
    LET missing == SelectSeq(params.expectedColumns.a,
                     LAMBDA e : ~ColumnPresent(params.data.a[1], e))
        found == IssuesOfType("missing_column")
    IN IF missing = <<>>
       THEN found = <<>>
       ELSE /\ Len(found) = 1
            /\ found[1].severity = "error"
            /\ found[1].message =
                 <<"Missing expected columns: ">> \o Join(missing, CommaSpace)
            /\ found[1].details.expected = Join(missing, CommaSpace)

C6_WitnessTtlSatisfiesTitle ==
  /\ ValidatedRows
  /\ params.expectedColumns = Arr(<<cTitle>>)
  /\ ObjectKeys(params.data.a[1]) = <<cTtl, cPrice>>
  /\ IssuesOfType("missing_column") = <<>>

IsBlank(v) ==
  \/ v.t \in {"null", "undefined"}
  \/ v.t = "string" /\ \A i \in 1..Len(v.s) : v.s[i] \in WhiteSpace

HasNoBlankField(row) == \A i \in 1..Len(row.f) : ~IsBlank(row.f[i].v)

\* A row that has fields, all of them empty.
HasOnlyBlankFields(row) ==
  /\ Len(row.f) > 0
  /\ \A i \in 1..Len(row.f) : IsBlank(row.f[i].v)

\* C7: validRows is the number of rows without a null, undefined or
\* whitespace-only field; if some rows have all their fields empty, exactly
\* one empty_field error lists the 1-based indices of all of them (singular
\* wording for one, plural for several), otherwise there is none.
C7_ValidRowsAndEmptyRows ==
  ValidatedRows =>
    LET rows == params.data.a
        blank == SelectSeq(Indices(Len(rows)), LAMBDA i : HasOnlyBlankFields(rows[i]))
        shown == [i \in 1..Len(blank) |-> NumStr(blank[i])]
        found == SelectSeq(result.issues,
                   LAMBDA i : i.type = "empty_field" /\ i.severity = "error")
    IN /\ result.validRows
            = Cardinality({i \in 1..Len(rows) : HasNoBlankField(rows[i])})
       /\ IF blank = <<>>
          THEN found = <<>>
          ELSE /\ Len(found) = 1
               /\ found[1].message =
                    IF Len(blank) = 1
                    THEN <<"Row ">> \o shown[1] \o <<" is completely empty">>
                    ELSE <<"Rows ">> \o Join(shown, CommaSpace)
                           \o <<" are completely empty">>

C7_WitnessSeveralEmptyRows ==
  /\ ValidatedRows
  /\ Len(SelectSeq(Indices(Len(params.data.a)),
           LAMBDA i : HasOnlyBlankFields(params.data.a[i]))) > 1
  /\ result.validRows > 0
  /\ ~HasOnlyBlankFields(params.data.a[1])

\* C8: with non-empty data, fewer rows than a given expectedMinRows yields
\* exactly one insufficient_rows issue, a warning, which alone leaves
\* isValid true; with at least expectedMinRows rows there is none.
C8_InsufficientRowsIsWarning ==
  (ValidatedRows /\ params.expectedMinRows.t = "number") =>
    LET found == IssuesOfType("insufficient_rows")
    IN /\ IF Len(params.data.a) < params.expectedMinRows.n
          THEN Len(found) = 1 /\ found[1].severity = "warning"
          ELSE found = <<>>
       /\ (\A i \in 1..Len(result.issues) :
              result.issues[i].type = "insufficient_rows") => result.isValid

C8_WitnessShortfallAlone ==
  /\ ValidatedRows
  /\ params.expectedMinRows.t = "number"
  /\ Len(params.data.a) < params.expectedMinRows.n
  /\ Len(result.issues) = 1
  /\ result.isValid

DiffersFromFirstRow(rows, i) ==
  \/ Len(rows[i].f) # Len(rows[1].f)
  \/ \E j \in 1..Len(rows[i].f) : ~HasKey(rows[1], rows[i].f[j].k)

\* C9: no inconsistent_columns issue for a single row; with more rows, a
\* row is inconsistent iff its number of keys differs from the first row's
\* or it has a key the first row lacks, and if any is, exactly one
\* inconsistent_columns issue carries their count, as a warning.
C9_InconsistentColumnsIsWarning ==
  ValidatedRows =>
    LET rows == params.data.a
        n == Cardinality({i \in 1..Len(rows) : DiffersFromFirstRow(rows, i)})
        found == IssuesOfType("inconsistent_columns")
    IN IF Len(rows) <= 1 \/ n = 0
       THEN found = <<>>
       ELSE /\ Len(found) = 1
            /\ found[1].severity = "warning"
            /\ found[1].message =
                 NumStr(n) \o <<" rows have different columns than expected">>

C9_WitnessFewerKeys ==
  /\ ValidatedRows
  /\ Len(params.data.a) > 1
  /\ \E i \in 2..Len(params.data.a) :
       /\ Len(params.data.a[i].f) < Len(params.data.a[1].f)
       /\ \A j \in 1..Len(params.data.a[i].f) :
            HasKey(params.data.a[1], params.data.a[i].f[j].k)
  /\ Len(IssuesOfType("inconsistent_columns")) = 1
  /\ result.isValid

\* C10: the message is "U+2713 Extracted N rows successfully" exactly when
\* the result is valid without issues; otherwise it starts with U+2713 when
\* valid and U+26A0 when not, states totalRows, then " with E error(s)"
\* when E > 0, then " and W warning(s)" when W > 0 (" with W warning(s)"
\* when E = 0), each noun plural exactly when its count exceeds 1.
C10_FormattedMessage ==
  (message # <<>>) =>
    LET E == Cardinality({i \in 1..Len(result.issues) :
                            result.issues[i].severity = "error"})
        W == Cardinality({i \in 1..Len(result.issues) :
                            result.issues[i].severity = "warning"})
        N == NumStr(result.totalRows)
        errors == IF E = 0 THEN <<>>
                  ELSE <<" with ">> \o NumStr(E)
                         \o <<" error">> \o (IF E > 1 THEN <<"s">> ELSE <<>>)
        warnings == IF W = 0 THEN <<>>
                    ELSE <<IF E > 0 THEN " and " ELSE " with ">> \o NumStr(W)
                           \o <<" warning">> \o (IF W > 1 THEN <<"s">> ELSE <<>>)
    IN /\ (message = <<"U+2713 Extracted ">> \o N \o <<" rows successfully">>)
            <=> (result.isValid /\ result.issues = <<>>)
       /\ ~(result.isValid /\ result.issues = <<>>) =>
            message = <<IF result.isValid THEN "U+2713 Extracted "
                        ELSE "U+26A0 Extracted ">>
                      \o N \o <<" rows">> \o errors \o warnings

C10_WitnessOneErrorTwoWarnings ==
  /\ pc = "validated"
  /\ message # <<>>
  /\ Cardinality({i \in 1..Len(result.issues) :
                    result.issues[i].severity = "error"}) = 1
  /\ Cardinality({i \in 1..Len(result.issues) :
                    result.issues[i].severity = "warning"}) = 2

\* C17: validateExtraction never raises: for any data value (absent, empty,
\* or a list of objects, null rows and rows with null or undefined values)
\* it returns a ValidationResult.
C17_ValidateNeverRaises ==
  pc = "validated" => ~result.threw

\* C19: adding completely empty rows to a dataset, with the expectations
\* unchanged, never turns isValid from false to true: it stays as it was or
\* goes from true to false.
C19_EmptyRowsNeverMakeValid ==
  [][(pc' = "revalidated" /\ ~result.isValid) => ~result'.isValid]_vars

\* A dataset that lacked an expected column, validated again with an empty
\* row added: it still lacks the column and is still invalid.
C19_WitnessInvalidStaysInvalid ==
  /\ pc = "revalidated"
  /\ Len(data) >= 2
  /\ ~IsCompletelyEmptyRow(data[1])
  /\ IssuesOfType("missing_column") # <<>>
  /\ ~result.isValid

\* The keys of the empty fields of a row, in the order of its keys.
BlankKeys(row) ==
  SelectSeq(ObjectKeys(row), LAMBDA key : IsBlank(Get(row, key)))

\* A row of which some fields are empty and some are not.
HasSomeBlankFields(row) ==
  /\ BlankKeys(row) # <<>>
  /\ Len(BlankKeys(row)) < Len(row.f)

\* C21: partially empty rows are reported as warnings only: 1 to 3 of them
\* give one empty_field warning per row, naming its 1-based index and its
\* empty fields; more than 3 give one empty_field warning with their count
\* only; such a row never counts toward validRows and never by itself makes
\* isValid false.
C21_PartiallyEmptyRowsAreWarnings ==
  ValidatedRows =>
    LET rows == params.data.a
        partial == SelectSeq(Indices(Len(rows)),
                     LAMBDA i : HasSomeBlankFields(rows[i]))
        found == SelectSeq(result.issues,
                   LAMBDA i : i.type = "empty_field" /\ i.severity = "warning")
    IN /\ IF Len(partial) = 0 THEN found = <<>>
          ELSE IF Len(partial) <= 3
          THEN /\ Len(found) = Len(partial)
               /\ \A p \in 1..Len(partial) :
                    /\ found[p].details.rowIndex = partial[p]
                    /\ found[p].details.fields = BlankKeys(rows[partial[p]])
                    /\ found[p].message =
                         <<"Row ">> \o NumStr(partial[p])
                           \o <<" has empty fields: ">>
                           \o Join(BlankKeys(rows[partial[p]]), CommaSpace)
          ELSE /\ Len(found) = 1
               /\ found[1].message =
                    NumStr(Len(partial)) \o <<" rows have some empty fields">>
               /\ found[1].details = Undefined
       /\ result.validRows =
            Len(SelectSeq(Indices(Len(rows)),
                  LAMBDA i : ~HasSomeBlankFields(rows[i])
                               /\ ~HasOnlyBlankFields(rows[i])))
       /\ ~result.isValid =>
            \/ \E i \in 1..Len(rows) : HasOnlyBlankFields(rows[i])
            \/ IssuesOfType("missing_column") # <<>>

\* Four rows, each with an empty and a filled field: one warning for all,
\* no valid row, and the dataset is valid.
C21_WitnessFourPartiallyEmptyRows ==
  /\ ValidatedRows
  /\ Len(params.data.a) = 4
  /\ \A i \in 1..4 : HasSomeBlankFields(params.data.a[i])
  /\ Len(result.issues) = 1
  /\ result.issues[1].severity = "warning"
  /\ result.validRows = 0
  /\ result.isValid

\* The number of rows the empty_field error lists (0 without that error).
ReportedEmptyRows ==
  LET found == SelectSeq(result.issues,
                 LAMBDA i : i.type = "empty_field" /\ i.severity = "error")
  IN IF found = <<>> THEN 0
     ELSE Len(SelectSeq(found[1].message, LAMBDA c : c = ",")) + 1

\* The number of rows the empty_field warnings report: one each, or the
\* count the aggregated warning starts with.
ReportedPartiallyEmptyRows ==
  LET found == SelectSeq(result.issues,
                 LAMBDA i : i.type = "empty_field" /\ i.severity = "warning")
  IN IF Len(found) = 1 /\ found[1].details = Undefined
     THEN NatVal(SubSeq(found[1].message, 1, Len(found[1].message) - 1))
     ELSE Len(found)

\* C29: for non-empty data every row is in exactly one of the classes
\* valid, completely empty, partially empty: validRows + completely empty
\* rows + partially empty rows = totalRows, and 0 <= validRows <= totalRows
\* = data.length; a row without fields is valid and raises no empty_field
\* issue.
C29_RowsInExactlyOneClass ==
  ValidatedRows =>
    LET rows == params.data.a
        keyless == SelectSeq(Indices(Len(rows)), LAMBDA i : rows[i].f = <<>>)
    IN /\ result.validRows + ReportedEmptyRows + ReportedPartiallyEmptyRows
            = result.totalRows
       /\ 0 <= result.validRows
       /\ result.validRows <= result.totalRows
       /\ result.totalRows = Len(rows)
       /\ result.validRows >= Len(keyless)
       /\ Len(keyless) = Len(rows) =>
            /\ result.validRows = result.totalRows
            /\ IssuesOfType("empty_field") = <<>>

\* One row of each class and a row without fields: two valid rows of four.
C29_WitnessEveryClass ==
  /\ ValidatedRows
  /\ Len(params.data.a) = 4
  /\ \E i \in 1..4 : params.data.a[i].f = <<>>
  /\ ReportedEmptyRows = 1
  /\ ReportedPartiallyEmptyRows = 1
  /\ result.validRows = 2

---------------------------------------------------------------------------
(* Properties of the parser, checked under SpecParse *)

Parsed == pc = "parsed"

\* The four strategies for a string payload, in the order the claim gives.
Attempts(trimmed) ==
  <<TryJsonArray(trimmed), TryHtmlTable(trimmed), TryHtmlProducts(trimmed),
    TryDelimited(trimmed)>>

FirstAccepted(attempts, fallback) ==
  IF \E i \in 1..Len(attempts) : attempts[i].accepted
  THEN attempts[CHOOSE i \in 1..Len(attempts) :
                  /\ attempts[i].accepted
                  /\ \A j \in 1..(i - 1) : ~attempts[j].accepted].value
  ELSE fallback

\* C3: for a string payload parseExtractedData returns the result of the
\* first strategy that accepts, in the order JSON array (tried only when the
\* trimmed text starts with '['), HTML table, product cards, delimited text;
\* a strategy that does not accept hands over to the next, and when none
\* accepts the result is Text holding the trimmed string.
C3_FirstAcceptingStrategy ==
  (Parsed /\ payload.t = "string") =>
    LET trimmed == Trim(payload.s)
        attempts == Attempts(trimmed)
    IN /\ parsed = FirstAccepted(attempts, Text(trimmed))
       /\ attempts[1].accepted => Head(trimmed) = "["

\* A text in which both a table and a product card are found: the table wins.
C3_WitnessTableBeforeProducts ==
  /\ Parsed
  /\ payload.t = "string"
  /\ TryHtmlTable(Trim(payload.s)).accepted
  /\ TryHtmlProducts(Trim(payload.s)).accepted
  /\ parsed = TryHtmlTable(Trim(payload.s)).value

\* An array payload whose elements are all row objects.
RowObjects ==
  /\ payload.t = "array"
  /\ payload.a # <<>>
  /\ \A i \in 1..Len(payload.a) : payload.a[i].t = "object"

\* Where key is first seen: the first row that has it, and its place there.
FirstRowWith(key) ==
  CHOOSE r \in 1..Len(payload.a) :
    /\ HasKey(payload.a[r], key)
    /\ \A q \in 1..(r - 1) : ~HasKey(payload.a[q], key)

PlaceInRow(key, r) ==
  CHOOSE p \in 1..Len(payload.a[r].f) : payload.a[r].f[p].k = key

SeenBefore(key, other) ==
  \/ FirstRowWith(key) < FirstRowWith(other)
  \/ /\ FirstRowWith(key) = FirstRowWith(other)
     /\ PlaceInRow(key, FirstRowWith(key)) < PlaceInRow(other, FirstRowWith(key))

\* C4: for a non-empty array of row objects the headers hold each key that
\* appears in any object exactly once, in the order of first appearance
\* across the rows, and no other header; every output row has exactly
\* headers.length cells.
C4_HeadersAreKeyUnion ==
  (Parsed /\ RowObjects) =>
    /\ ~parsed.threw
    /\ parsed.type = "table"
    /\ \A r \in 1..Len(payload.a) : \A p \in 1..Len(payload.a[r].f) :
         \E h \in 1..Len(parsed.headers) :
           parsed.headers[h] = payload.a[r].f[p].k
    /\ \A h \in 1..Len(parsed.headers) :
         \E r \in 1..Len(payload.a) : HasKey(payload.a[r], parsed.headers[h])
    /\ \A h, g \in 1..Len(parsed.headers) :
         h < g => /\ parsed.headers[h] # parsed.headers[g]
                  /\ SeenBefore(parsed.headers[h], parsed.headers[g])
    /\ Len(parsed.rows) = Len(payload.a)
    /\ \A r \in 1..Len(parsed.rows) :
         Len(parsed.rows[r]) = Len(parsed.headers)

\* Rows with different keys: a later row brings a header the first lacks.
C4_WitnessLaterRowAddsKey ==
  /\ Parsed
  /\ RowObjects
  /\ Len(payload.a) > 1
  /\ Len(parsed.headers) > Len(payload.a[1].f)
  /\ Len(payload.a[1].f) > 0

\* C5: in every Table parseExtractedData returns, whichever strategy made
\* it, every row has exactly as many cells as there are headers.
C5_RowsAsWideAsHeaders ==
  (Parsed /\ ~parsed.threw /\ parsed.type = "table") =>
    \A r \in 1..Len(parsed.rows) :
      Len(parsed.rows[r]) = Len(parsed.headers)

\* No strategy before the delimited one accepts the trimmed text.
NoEarlierStrategy(trimmed) ==
  /\ ~TryJsonArray(trimmed).accepted
  /\ ~TryHtmlTable(trimmed).accepted
  /\ ~TryHtmlProducts(trimmed).accepted

\* C11: a string that no earlier strategy accepts and that delimited parsing
\* turns into a header line plus at least one data row (one data row
\* included) is returned as that Table, not as Text.
C11_HeaderAndOneDataRowIsTable ==
  (Parsed /\ payload.t = "string") =>
    LET trimmed == Trim(payload.s)
        delimited == parseDelimitedText(trimmed)
    IN (/\ NoEarlierStrategy(trimmed)
        /\ delimited.type = "table"
        /\ Len(delimited.rows) >= 1) => parsed = delimited

\* The delimiter parseDelimitedText settles on for these lines.
BestDelimiter(lines) ==
  DetectDelimiter(lines, 1,
    [bestDelimiter |-> ",", maxConsistency |-> 0]).bestDelimiter

\* C12: when parseDelimitedText returns a Table, the first non-blank line
\* supplies the headers and every remaining non-blank line appears, in input
\* order, as a data row: the table has (number of non-blank lines - 1) rows.
C12_EveryRemainingLineIsARow ==
  (pc = "delimited" /\ parsed.type = "table") =>
    LET lines == NonBlankLines(payload.s)
        delimiter == BestDelimiter(lines)
    IN /\ parsed.headers = parseCsvLine(lines[1], delimiter)
       /\ Len(parsed.rows) = Len(lines) - 1
       /\ \A i \in 1..Len(parsed.rows) :
            parsed.rows[i] = parseCsvLine(lines[i + 1], delimiter)

\* C13: parseHtmlTable returns a Table only if at least one data row remains
\* after the headers are determined (a first row promoted to headers is no
\* data row); otherwise it returns Text holding the original input.
C13_TableOnlyWithADataRow ==
  pc = "table" =>
    IF parsed.type = "table" THEN Len(parsed.rows) >= 1
    ELSE parsed = Text(payload.s)

\* C14: a string that holds a table opening tag in any letter case (and that
\* the JSON strategy did not accept) goes through the HTML table extraction,
\* and the extracted Table is returned when it has at least one row.
C14_TableTagInAnyCase ==
  (Parsed /\ payload.t = "string") =>
    LET trimmed == Trim(payload.s)
        extracted == parseHtmlTable(trimmed)
    IN (/\ ~TryJsonArray(trimmed).accepted
        /\ Includes(ToLowerCase(trimmed), sTableLower)
        /\ extracted.type = "table"
        /\ Len(extracted.rows) >= 1) => parsed = extracted

\* C15: for a payload that is a number or a boolean, whatever its value,
\* parseExtractedData returns Text holding String(payload); Text with the
\* empty string is kept for an empty or absent payload.
C15_NumbersAndBooleansAsStrings ==
  (Parsed /\ payload.t \in {"number", "boolean"}) =>
    /\ parsed = Text(StringOf(payload))
    /\ parsed.text # <<>>

\* C16: the Property/Value conversion is applied to non-array objects only:
\* for no array payload, the empty array included, is the result the
\* Property/Value table of its keys or Text '{}'.
C16_NoPropertyTableForArrays ==
  (Parsed /\ payload.t = "array" /\ ~parsed.threw) =>
    /\ parsed # parseObject(payload)
    /\ parsed # Text(<<"{", "}">>)
    /\ parsed.type = "table" => parsed.headers # <<kProperty, kValue>>

\* C18: parseExtractedData never raises, whatever the payload: the outcome
\* is a returned Table or Text, also for an array whose first element is an
\* object and whose later elements are null or primitives, and for a text
\* that starts with '[' and is no valid JSON.
C18_ParseNeverRaises ==
  Parsed => /\ ~parsed.threw
            /\ parsed.type \in {"table", "text"}

\* u has the headers of t, as a set, and the rows of t: in every row, each
\* header has the cell it has in t.
SameTable(t, u) ==
  /\ ~u.threw
  /\ u.type = "table"
  /\ Len(u.headers) = Len(t.headers)
  /\ {u.headers[g] : g \in 1..Len(u.headers)}
       = {t.headers[h] : h \in 1..Len(t.headers)}
  /\ Len(u.rows) = Len(t.rows)
  /\ \A i \in 1..Len(t.rows) :
       /\ Len(u.rows[i]) = Len(t.rows[i])
       /\ \A h \in 1..Len(t.headers) : \E g \in 1..Len(u.headers) :
            /\ u.headers[g] = t.headers[h]
            /\ u.rows[i][g] = t.rows[i][h]

\* C20: for an array of row objects A and T = parseExtractedData(A), the
\* row objects rebuilt from T (each keyed by the headers of T) parse to a
\* table with the same set of headers and the same rows as T.
C20_ReparseGivesSameTable ==
  [][(pc = "parsed" /\ pc' = "reparsed" /\ RowObjects)
       => SameTable(parsed, parsed')]_vars

\* Rows with different keys, one of them index-like, parsed again: the
\* index-like key has become the first header, and some cells are empty.
C20_WitnessIndexKeyComesFirst ==
  /\ pc = "reparsed"
  /\ RowObjects
  /\ Len(payload.a) >= 2
  /\ ObjectKeys(payload.a[1]) = <<kA, kB>>
  /\ parsed.type = "table"
  /\ parsed.headers = <<<<"1">>, kA, kB>>
  /\ \E i \in 1..Len(parsed.rows) : parsed.rows[i][1] = <<>>

---------------------------------------------------------------------------
(* Properties of parseDelimitedText, checked under SpecDelimited *)

Delimited == pc = "delimited"

\* The candidates with a count other than zero on the first line.
Candidates(lines) ==
  {c \in 1..Len(Delimiters) : countDelimiter(lines[1], Delimiters[c]) # 0}

\* The number of lines on which candidate c has its first-line count.
Consistency(lines, c) ==
  Cardinality({l \in 1..Len(lines) :
                 countDelimiter(lines[l], Delimiters[c])
                   = countDelimiter(lines[1], Delimiters[c])})

\* The candidate with the largest consistency, the earliest-listed on a tie.
Preferred(lines) ==
  CHOOSE c \in Candidates(lines) :
    \A d \in Candidates(lines) :
      \/ Consistency(lines, d) < Consistency(lines, c)
      \/ Consistency(lines, d) = Consistency(lines, c) /\ c <= d

\* C22: among tab, comma, semicolon and pipe, those with a quote-aware count
\* other than zero on the first line are candidates; parseDelimitedText
\* chooses the one with the most lines that have the first line's count,
\* the earliest-listed on a tie; without a candidate the input is rejected
\* as Text.
C22_DelimiterDetection ==
  (Delimited /\ Len(NonBlankLines(payload.s)) >= 2) =>
    LET lines == NonBlankLines(payload.s) IN
    IF Candidates(lines) = {} THEN parsed = Text(payload.s)
    ELSE /\ BestDelimiter(lines) = Delimiters[Preferred(lines)]
         /\ parsed.type = "table" =>
              parsed.headers =
                parseCsvLine(lines[1], Delimiters[Preferred(lines)])

\* The semicolon is on both lines and the comma on the first only: the
\* later-listed semicolon is chosen.
C22_WitnessSemicolonBeatsComma ==
  /\ Delimited
  /\ NonBlankLines(payload.s) = <<lCommaSemicolon, lSemicolon>>
  /\ parsed = Table(<<<<"a">>, <<"b", ",", "c">>>>, <<<<<<"1">>, <<"2">>>>>>)

\* The number of lines that split, at the delimiter, into as many fields as
\* the first line.
ConsistentLines(lines, delimiter) ==
  Cardinality({l \in 1..Len(lines) :
                 Len(parseCsvLine(lines[l], delimiter))
                   = Len(parseCsvLine(lines[1], delimiter))})

\* C23 as stated: parseDelimitedText returns Text with the original text
\* exactly when there are fewer than two non-blank lines or fewer than 80%
\* of the non-blank lines split, at the chosen delimiter, into as many
\* columns as the first line.
C23_RejectedExactlyBelowThreshold ==
  Delimited =>
    LET lines == NonBlankLines(payload.s) IN
    IF Len(lines) < 2 THEN parsed = Text(payload.s)
    ELSE IF 5 * ConsistentLines(lines, BestDelimiter(lines)) < 4 * Len(lines)
    THEN parsed = Text(payload.s)
    ELSE parsed.type = "table"

\* C23 as amended: parseDelimitedText returns Text with the original text
\* exactly when there are fewer than two non-blank lines, or no candidate
\* delimiter has a count other than zero on the first line, or fewer than
\* 80% of the non-blank lines split, at the chosen delimiter, into as many
\* columns as the first line; otherwise it returns a Table.
C23_Rejections ==
  Delimited =>
    LET lines == NonBlankLines(payload.s) IN
    IF Len(lines) < 2 \/ Candidates(lines) = {} THEN parsed = Text(payload.s)
    ELSE IF 5 * ConsistentLines(lines, Delimiters[Preferred(lines)])
              < 4 * Len(lines)
    THEN parsed = Text(payload.s)
    ELSE parsed.type = "table"

\* Five lines of which four have the columns of the first: exactly 80%,
\* accepted, and the table holds the three consistent data lines.
C23_WitnessExactlyEightyPercent ==
  /\ Delimited
  /\ Len(NonBlankLines(payload.s)) = 5
  /\ ConsistentLines(NonBlankLines(payload.s),
                     BestDelimiter(NonBlankLines(payload.s))) = 4
  /\ parsed.type = "table"
  /\ Len(parsed.rows) = 3

---------------------------------------------------------------------------
(* Properties of parseHtmlProducts, checked under SpecProducts *)

\* The cards a page was put together from, in their order.
RECURSIVE CardsOf(_, _)

CardsOf(page, from) ==
  IF from > Len(page) THEN <<>>
  ELSE LET card == CHOOSE c \in CardSet : StartsWithAt(page, from, c)
       IN <<card>> \o CardsOf(page, from + Len(card))

\* The element of a card: the pass that finds it.
PassOf(card) ==
  IF card \in {cDivTitle, cLiPrice} THEN "div" ELSE "article"

\* The fields a card yields, read off its markup.
FieldsOf(card) ==
  CASE card = cArticleTitle -> Obj(<<Field(kTitle, Str(<<"T">>))>>)
    [] card = cArticlePrice ->
         Obj(<<Field(kPrice, Str(<<"$", "1">>)), Field(kImage, Str(<<"u">>))>>)
    [] card = cArticleStock ->
         Obj(<<Field(kStock, Str(<<"i", "n", " ", "s", "t", "o", "c", "k">>))>>)
    [] card = cDivTitle ->
         Obj(<<Field(kTitle, Str(<<"T", "i", "t", "l", "e">>))>>)
    [] card = cLiPrice -> Obj(<<Field(kPrice, Str(<<"$", "2">>))>>)
    [] card = cArticleBlankTitle ->
         Obj(<<Field(kTitle, Str(<<>>)), Field(kPrice, Str(<<"$", "3">>))>>)

\* The cards of a pass that have a title or a price that is not empty.
KeptCards(cards, pass) ==
  SelectSeq(cards,
    LAMBDA c : /\ PassOf(c) = pass
               /\ \E f \in 1..Len(FieldsOf(c).f) :
                    /\ FieldsOf(c).f[f].k \in {kTitle, kPrice}
                    /\ FieldsOf(c).f[f].v.s # <<>>)

\* C24: the div/li pass runs only if the article pass kept no card, so all
\* rows come from one pass; a card is kept only if it has a non-empty title
\* or price; the headers are the union of the fields of the kept cards, a
\* row has '' for a field its card lacks; no kept card gives Text with the
\* original HTML.
C24_ProductCards ==
  pc = "products" =>
    LET cards == CardsOf(payload.s, 1)
        products == IF KeptCards(cards, "article") # <<>>
                    THEN KeptCards(cards, "article")
                    ELSE KeptCards(cards, "div")
    IN IF products = <<>> THEN parsed = Text(payload.s)
       ELSE /\ parsed.type = "table"
            /\ {parsed.headers[h] : h \in 1..Len(parsed.headers)}
                 = UNION {{FieldsOf(products[p]).f[f].k :
                             f \in 1..Len(FieldsOf(products[p]).f)} :
                          p \in 1..Len(products)}
            /\ \A h, g \in 1..Len(parsed.headers) :
                 h # g => parsed.headers[h] # parsed.headers[g]
            /\ Len(parsed.rows) = Len(products)
            /\ \A p \in 1..Len(products) :
                 /\ Len(parsed.rows[p]) = Len(parsed.headers)
                 /\ \A h \in 1..Len(parsed.headers) :
                      parsed.rows[p][h] =
                        IF HasKey(FieldsOf(products[p]), parsed.headers[h])
                        THEN Get(FieldsOf(products[p]), parsed.headers[h]).s
                        ELSE <<>>

\* A page with an article card and a div card that both have a title: the
\* only row is the article's.
C24_WitnessArticlePassOnly ==
  /\ pc = "products"
  /\ CardsOf(payload.s, 1) = <<cDivTitle, cArticlePrice>>
  /\ parsed = Table(<<kPrice, kImage>>, <<<<<<"$", "1">>, <<"u">>>>>>)

\* C30: for every line and every candidate delimiter, parseCsvLine returns
\* countDelimiter(line, delimiter) + 1 fields: detection and splitting
\* agree on which delimiters are outside quoted spans, doubled quotes
\* included.
C30_FieldsAreDelimitersPlusOne ==
  Delimited =>
    \A l \in 1..Len(SplitLines(payload.s)) : \A d \in 1..Len(Delimiters) :
      Len(parseCsvLine(SplitLines(payload.s)[l], Delimiters[d]))
        = countDelimiter(SplitLines(payload.s)[l], Delimiters[d]) + 1

\* A first line with a quoted field that holds a comma and a doubled quote:
\* one comma is counted, and the line gives two header cells.
C30_WitnessQuotedComma ==
  /\ Delimited
  /\ parsed.type = "table"
  /\ NonBlankLines(payload.s)[1] = lQuoted
  /\ countDelimiter(lQuoted, ",") = 1
  /\ parsed.headers = <<<<"a", ",", "\"", "b">>, <<"c">>>>

---------------------------------------------------------------------------
(* Properties of the manifest, checked under SpecManifest *)

\* No two entries have the same name.
UniqueNames(extractors) ==
  \A i, j \in 1..Len(extractors) :
    i # j => extractors[i].name # extractors[j].name

\* The entries with every entry of that name replaced where it is, or the
\* entry at the end when none has its name.
ReplacedOrAppended(extractors, entry) ==
  IF \E i \in 1..Len(extractors) : extractors[i].name = entry.name
  THEN [i \in 1..Len(extractors) |->
          IF extractors[i].name = entry.name THEN entry ELSE extractors[i]]
  ELSE extractors \o <<entry>>

\* C25: after any calls of addExtractorToManifest, interleaved or not, no
\* two entries of the saved manifest have the same name; a call whose name
\* is in the manifest it loaded saves that manifest with the entry replaced
\* at its position, not appended.
C25_NoDuplicateNames ==
  [][/\ file'.readable => UniqueNames(file'.extractors)
     /\ \A c \in 1..Len(calls) :
          (calls[c].at = "write" /\ calls'[c].at = "done") =>
            file' = Manifest(ReplacedOrAppended(calls[c].loaded,
                                               calls[c].entry))]_vars

\* The manifest held an entry x before another entry; the call that added
\* x has saved, and its entry is where the old one was.
C25_WitnessReplacedInPlace ==
  /\ pc = "manifest"
  /\ file.readable
  /\ Len(before.extractors) = 2
  /\ Len(file.extractors) = 2
  /\ \E c \in 1..Len(calls) :
       /\ calls[c].at = "done"
       /\ calls[c].entry.name = before.extractors[1].name
       /\ file.extractors[1] = calls[c].entry

\* C26: no update of the manifest is lost: when calls with different names
\* have run, concurrently or not, and all have completed, the saved
\* manifest holds the entry of each and every entry it held before.
C26_NoLostUpdate ==
  (/\ pc = "manifest"
   /\ Len(calls) = 2
   /\ calls[1].entry.name # calls[2].entry.name
   /\ \A c \in 1..Len(calls) : calls[c].at = "done") =>
    /\ file.readable
    /\ \A c \in 1..Len(calls) :
         \E i \in 1..Len(file.extractors) :
           file.extractors[i] = calls[c].entry
    /\ \A b \in 1..Len(before.extractors) :
         \E i \in 1..Len(file.extractors) :
           file.extractors[i].name = before.extractors[b].name

---------------------------------------------------------------------------
(* Properties of the hook, checked under SpecExtension *)

\* C27: every promise of executeTool is resolved once and not left
\* pending: no second value is ever given to it; the value is the payload
\* of a TOOL_RESULT with its messageId that is handled while the call is
\* pending, or the timed-out result from its timer; when its timer has
\* fired it is resolved; and once resolved its messageId is not in the
\* pending callbacks.
C27_ResolvedExactlyOnce ==
  [][\A id \in 1..Len(resolutions') :
       /\ Len(resolutions'[id]) <= 1
       /\ (id <= Len(resolutions) /\ resolutions[id] # <<>>) =>
            resolutions'[id] = resolutions[id]
       /\ (id <= Len(resolutions) /\ resolutions[id] = <<>>
             /\ resolutions'[id] # <<>>) =>
            /\ id \in pendingCallbacks
            /\ \/ \E value \in ToolPayloadSet :
                    /\ event' = ToolResult(id, value)
                    /\ resolutions'[id] = <<value>>
               \/ /\ event' = TimerFired(id)
                  /\ resolutions'[id] = <<TimedOut>>
       /\ resolutions'[id] # <<>> <=> id \notin pendingCallbacks'
       /\ id \notin timers' => resolutions'[id] # <<>>]_vars

\* A call that was answered by a TOOL_RESULT, after which a second
\* TOOL_RESULT with its messageId and another payload has been handled and
\* its timer has fired; another call that timed out.
C27_WitnessDuplicateAndTimeout ==
  /\ pc = "extension"
  /\ Len(resolutions) = 2
  /\ timers = {}
  /\ \E id \in 1..2 :
       /\ resolutions[id] # <<>>
       /\ resolutions[id] # <<TimedOut>>
       /\ event.type = "TOOL_RESULT"
       /\ event.messageId = id
       /\ resolutions[id] # <<event.payload>>
  /\ \E id \in 1..2 : resolutions[id] = <<TimedOut>>

\* C28: while a tool call is pending, neither answered nor timed out,
\* isExecuting is true.
C28_ExecutingWhilePending ==
  (pc = "extension" /\ pendingCallbacks # {}) => isExecuting

=============================================================================
